---- MODULE Spec2Model ----
(***************************************************************************)
(* A model of kaa.base's cooperative concurrency core:                     *)
(*   - the coroutine engine of src/src/coroutine.py (CoroutineInProgress,  *)
(*     CoroutineLockedInProgress and the coroutine decorator's policies);  *)
(*   - the main-thread wake queue of src/src/thread.py.                    *)
(* The engine runs on the main loop only, so every handler (an invocation  *)
(* of the decorated function, a timer firing, a promise being settled, a   *)
(* stop()) is one atomic action; every state between two actions is a      *)
(* quiescent main-loop point.  The handlers are written as operators from  *)
(* an engine state record to an engine state record, so that the calls a   *)
(* handler makes (observer emission, propagated stop) are part of it.      *)
(*                                                                         *)
(* InProgress (async.py), Signal, Timer and DecoratorDataStore are not     *)
(* among the sources; they are modelled from the specification's promise   *)
(* and timer contracts (sections 4.1 and 4.2).                             *)
(*                                                                         *)
(* A step function is modelled by the directives it yields; the directive  *)
(* of each resumption is chosen when the generator is resumed.  A task     *)
(* awaits only promises that exist when it yields (the plain promise or a  *)
(* task created before it), so awaits are acyclic.                         *)
(***************************************************************************)
EXTENDS Integers, Sequences, FiniteSets, TLC

\* ------------------------------------------------------------------ bounds
MaxTasks == 2
MaxAdvances == 3
MaxEntries == 3
MaxJobs == 3
MaxPriority == 1
MaxYields == 3

\* --------------------------------------------------------------- constants
POLICY_SYNCHRONIZED == "synchronized"
POLICY_SINGLETON == "singleton"
POLICY_PASS_LAST == "passlast"
POLICY_NONE == "none"
Policies == {POLICY_NONE, POLICY_SYNCHRONIZED, POLICY_SINGLETON, POLICY_PASS_LAST}

\* Python's None where a promise reference is expected.
NoIP == -1
\* One promise that is not a task (settled by the application).
Plain == {0}
TaskIds == 1..MaxTasks
Ids == Plain \cup TaskIds

VARIABLES
  policy,       \* the policy argument of the decorator
  ntasks,       \* tasks created so far: CoroutineInProgress objects 1..ntasks
  st,           \* promise state: "Pending", "Finished", "Failed"
  exc,          \* InProgress._exception: "none", "Error", "GeneratorExit"
  fobs,         \* callbacks connected to the promise's finished signal, in order
  eobs,         \* callbacks connected to the promise's exception signal, in order
  coroutine,    \* self._coroutine is not None
  timer,        \* "none": self._timer is None; "idle"; "active"
  prereq,       \* self._prerequisite_ip
  active_coroutines, \* the module's _active_coroutines set (LIVE)
  locked,       \* the object is a CoroutineLockedInProgress
  lock,         \* func._lock
  last,         \* store.last of the decorated function's key
  lastArg,      \* the 'last' keyword the step function of the task received
  adv,          \* how often the task's generator was resumed
  closed,       \* how often generator.close() was called (counted to 2)
  notified,     \* how often a caller's observer of the task was called (to 2)
  sawLast,      \* a caller's observer ran while its task was still in last
  cancelledOn,  \* <<>>, or <<p, state of p>>: stop() aborted the task while its
                \* prerequisite was p (<<NoIP, "none">> without a prerequisite)
  restopped,    \* stop() was called on a task that was stopped or terminal already
  reused,       \* an invocation returned an existing task (Singleton)
  failure,      \* finish or throw was called on a settled promise (AlreadySet)
  result,       \* InProgress._result of a finished promise (0: not finished)
  unhandled,    \* InProgress._unhandled_exception is set
  awaited,      \* the InProgress in the generator's latest yield, NoIP when it
                \* yielded NotFinished or was not resumed yet
  misinjected,  \* a resumption did not inject the outcome of the awaited promise
  fires,        \* how often the task's step timer fired
  conts,        \* how often the task's generator yielded NotFinished
  signals,      \* the step functions may raise KeyboardInterrupt
  reraised,     \* per task: "no", or _step re-raised a KeyboardInterrupt or
                \* SystemExit to its caller, with the task's promise "settled"
                \* with it at that moment or "unsettled"
  terminalPrereq, \* self._prerequisite_ip was assigned a promise that was
                \* finished or failed at that moment
  sawAlive,     \* a caller's observer of the task was called before the task
                \* was cleaned up (_active_coroutines, timer, prerequisite,
                \* generator)
  tmo           \* the InProgress that timeout() returned for the task:
                \* <<state, callback given, task alive at expiry>>, state "none"
                \* (no timeout() call), "Pending", "Finished", "TimedOut" or
                \* the exception it mirrors

engineVars == <<policy, ntasks, st, exc, fobs, eobs, coroutine, timer, prereq,
                active_coroutines, locked, lock, last, lastArg, adv, closed,
                notified, sawLast, cancelledOn, restopped, reused,
                failure, result, unhandled, awaited, misinjected, fires,
                conts, sawAlive, terminalPrereq, signals, reraised, tmo>>

\* The wake queue of thread.py (its actions are at the end of the module).
VARIABLES
  queue,     \* _thread_notifier_queue
  qlock,     \* owner of _thread_notifier_lock: "free", "main" or a worker
  pipe,      \* _thread_notifier_pipe is not None
  bytes,     \* unread bytes in the pipe
  wpc,       \* each worker's position in _thread_notifier_queue_callback
  went,      \* the entry each worker is enqueuing
  mpc,       \* the main thread's position
  issued,    \* enqueue calls started so far
  before,    \* before[e]: the entries whose enqueue call had returned when e's began
  ran        \* the entries whose callable ran and whose promise was settled, in order

queueVars == <<queue, qlock, pipe, bytes, wpc, went, mpc, issued, before, ran>>

\* A one-shot thread of ThreadCallback and its ThreadInProgress.
VARIABLES
  tpc,       \* the thread's position: "none" (not created), "run", "acquire",
             \* "append", "write", "release", "clear", "done" (exited)
  tst,       \* state of the ThreadInProgress: "Pending", "Finished", "Failed"
  tval,      \* its result (0: none)
  tobs,      \* the callbacks connected to it, in order
  tentry,    \* the wake-queue entry that settles it (0: none)
  tkind,     \* "finish" or "throw": what that entry calls ("none": no entry)
  tpend,     \* the callbacks the running emission has still to call
  settledBy, \* the thread that settled the ThreadInProgress ("nobody" so far)
  joined,    \* t.join() has returned
  userSaw    \* what the caller's observer found: "none" (not called yet),
             \* "joined" or "running"

threadVars == <<tpc, tst, tval, tobs, tentry, tkind, tpend, settledBy, joined,
                userSaw>>

\* A named job server (_JobServer) and the threads that add jobs to it.
VARIABLES
  jobs,      \* self.jobs: the queued jobs
  jprio,     \* job.priority of each job
  jcount,    \* jobs added so far; jobs are numbered in the order of their append
  jcond,     \* owner of self.condition: "free", "server" or a submitter
  apc,       \* each submitter's position in add()
  aprio,     \* the priority of the job each submitter is adding
  spc,       \* the server thread's position in run()
  jcur,      \* the job the server popped last (0: none)
  jran       \* the jobs the server has executed, in order

jobVars == <<jobs, jprio, jcount, jcond, apc, aprio, spc, jcur, jran>>

\* The outcome of the callables the drain runs.
VARIABLES
  qst,       \* the InProgress of each entry: "Pending", "Finished", or the
             \* exception it failed with, "Error" or "KeyboardInterrupt"
  qraise,    \* the entry whose KeyboardInterrupt the drain is re-raising, 0: none
  during     \* the queued entries that were enqueued while the main thread
             \* was in a drain pass

drainVars == <<qst, qraise, during>>

\* create_thread_notifier_pipe with purge.
VARIABLES
  purged     \* the entries that a purge discarded from the queue

pipeVars == <<purged>>

\* NamedThreadCallback._create_job for one pool name.
VARIABLES
  _threads,  \* _threads[name]: the job server registered under the name, 0: none
  nservers,  \* _JobServer objects constructed for the name; each one is a
             \* started thread, numbered in the order of construction
  sjobs,     \* the jobs queued on each job server
  cpc,       \* each submitting thread's position in _create_job: "idle",
             \* "has_key", "construct", "assign", "lookup", "add"
  cserver,   \* each submitting thread's local: the server it constructed, then
             \* the server it looked up
  cjob,      \* each submitting thread's job
  njobs      \* jobs created so far for the name

poolVars == <<_threads, nservers, sjobs, cpc, cserver, cjob, njobs>>

\* Job servers that are stopped, and killall.
VARIABLES
  stopped,   \* self.stopped of each job server
  ppc,       \* each server thread's position in run: "none" (no server under
             \* the name), "top", "acquire", "check", "waiting", "exec",
             \* "finish", "enqueue", "exited"
  pcond,     \* owner of each server's condition: "free", "server", "main"
  pwoken,    \* the waiting server thread has been notified
  pjobs,     \* the number of jobs in self.jobs of each server
  padded,    \* jobs added so far, over all servers
  kpc,       \* the main thread's position in killall: "idle", "next", "stop",
             \* "join", "done"
  kleft,     \* the servers killall still has to visit
  kcur       \* the server killall is stopping or joining

killVars == <<stopped, ppc, pcond, pwoken, pjobs, padded, kpc, kleft, kcur>>

\* One call of a function decorated with yield_execution.
VARIABLES
  yplan,     \* what the generator yields, in order: "C" (YieldContinue), "CB"
             \* (a YieldCallback) and at the end a value; <<>>: not called yet
  yentered,  \* how often the generator has been entered (function())
  yfires,    \* how often the timer has fired
  yret,      \* what newfunc returned: "none", a value or "InProgress"
  ytimer,    \* self._timer: "none" (never created), "stopped", "active",
             \* "released" (self._timer = None)
  ywait,     \* the yielded YieldCallback is connected to the timer and its
             \* result has not arrived
  yconn,     \* the caller has connected a callback to the InProgress
  ycalls,    \* the arguments of the calls of that callback, in order
  ydone      \* "no"; "with"/"without": the final value was yielded with/without
             \* a connected callback

yieldVars == <<yplan, yentered, yfires, yret, ytimer, ywait, yconn, ycalls, ydone>>

\* Threads that enter code guarded by synchronized.
VARIABLES
  slockattr, \* per key, the lazily created lock: obj._kaa_synchronized_lock or
             \* store.synchronized_lock; 0: the attribute does not exist
  nlocks,    \* RLock objects created so far, numbered in the order of creation
  sowner,    \* per lock, the thread that holds it, or "free"
  sypc,      \* each thread's position: "idle", "test", "create", "read",
             \* "acquire", "body"
  skey,      \* the key of each thread's guarded call
  slock      \* each thread's local: self._lock / lock (0: not read yet)

syncVars == <<slockattr, nlocks, sowner, sypc, skey, slock>>

\* The engine's state as one record, for the handlers below.
Cur == [policy |-> policy, ntasks |-> ntasks, st |-> st, exc |-> exc,
        fobs |-> fobs, eobs |-> eobs, coroutine |-> coroutine, timer |-> timer,
        prereq |-> prereq, active_coroutines |-> active_coroutines,
        locked |-> locked, lock |-> lock, last |-> last, lastArg |-> lastArg,
        adv |-> adv, closed |-> closed, notified |-> notified,
        sawLast |-> sawLast, cancelledOn |-> cancelledOn,
        restopped |-> restopped, reused |-> reused, failure |-> failure,
        result |-> result, unhandled |-> unhandled, awaited |-> awaited,
        misinjected |-> misinjected, fires |-> fires, conts |-> conts,
        sawAlive |-> sawAlive, terminalPrereq |-> terminalPrereq,
        signals |-> signals, reraised |-> reraised,
        tmo |-> tmo]

Apply(s) ==
  /\ policy' = s.policy /\ ntasks' = s.ntasks /\ st' = s.st /\ exc' = s.exc
  /\ fobs' = s.fobs /\ eobs' = s.eobs /\ coroutine' = s.coroutine
  /\ timer' = s.timer /\ prereq' = s.prereq
  /\ active_coroutines' = s.active_coroutines /\ locked' = s.locked
  /\ lock' = s.lock /\ last' = s.last /\ lastArg' = s.lastArg /\ adv' = s.adv
  /\ closed' = s.closed /\ notified' = s.notified /\ sawLast' = s.sawLast
  /\ cancelledOn' = s.cancelledOn /\ restopped' = s.restopped
  /\ reused' = s.reused /\ failure' = s.failure
  /\ result' = s.result /\ unhandled' = s.unhandled
  /\ awaited' = s.awaited /\ misinjected' = s.misinjected
  /\ fires' = s.fires /\ conts' = s.conts /\ tmo' = s.tmo
  /\ sawAlive' = s.sawAlive /\ terminalPrereq' = s.terminalPrereq
  /\ signals' = s.signals /\ reraised' = s.reraised
  /\ UNCHANGED <<queueVars, threadVars, jobVars, drainVars, pipeVars, poolVars, killVars, yieldVars,
               syncVars>>

InSeq(x, q) == \E k \in 1..Len(q) : q[k] = x
Without(q, x) == SelectSeq(q, LAMBDA y : y # x)
UpTo2(n) == IF n < 2 THEN n + 1 ELSE 2

\* ------------------------------------------------- promise, signal, timer
is_finished(s, i) == s.st[i] # "Pending"

connect(s, i, ob) == [s EXCEPT !.fobs[i] = Append(@, ob)]

connect_both(s, i, ob) ==
  [s EXCEPT !.fobs[i] = Append(@, ob), !.eobs[i] = Append(@, ob)]

\* self._prerequisite_ip.disconnect(f); self._prerequisite_ip.exception.disconnect(f)
disconnect(s, i, ob) ==
  [s EXCEPT !.fobs[i] = Without(@, ob), !.eobs[i] = Without(@, ob)]

Timer_start(s, t) == [s EXCEPT !.timer[t] = "active"]

Timer_stop(s, t) == [s EXCEPT !.timer[t] = "idle"]

\* ------------------------------------------------------ observer callbacks
\* faulty variant: _continue without the test of self._timer
_continue_mut(s, t) == Timer_start(s, t)

\* faulty variant: _continue resumes the generator inside the notification
_continue_mut_inline(s, t) ==
  IF s.timer[t] # "none" THEN [Timer_start(s, t) EXCEPT !.adv[t] = @ + 1] ELSE s

\* CoroutineInProgress._continue
_continue(s, t) == IF s.timer[t] # "none" THEN Timer_start(s, t) ELSE s

\* CoroutineLockedInProgress._try_again
_try_again(s, w) ==
  IF ~is_finished(s, s.lock)
  THEN connect_both(s, s.lock, <<"try_again", w>>)
  ELSE _continue([s EXCEPT !.lock = w], w)

\* faulty variant: the handler leaves the task in last
cb_mut(s, t) == s

\* the handler wrap() attaches: last.remove(obj)
cb(s, t) == [s EXCEPT !.last = Without(@, t)]

\* task i is not cleaned up: it is in _active_coroutines, or its timer is
\* active, or it has a prerequisite, or its generator is not released and closed
NotCleanedUp(s, i) ==
  \/ i \in s.active_coroutines \/ s.timer[i] = "active"
  \/ s.prereq[i] # NoIP \/ s.coroutine[i] \/ s.closed[i] = 0

\* an observer the caller of the decorated function connected to task i
user(s, i) ==
  [s EXCEPT !.notified[i] = UpTo2(@), !.sawLast = @ \/ InSeq(i, s.last),
            !.sawAlive[i] = @ \/ NotCleanedUp(s, i)]

\* the promise of timeout() mirrors the outcome of task i
mirror(s, i) ==
  IF s.tmo[i][1] # "Pending" THEN [s EXCEPT !.failure = TRUE]
  ELSE [s EXCEPT !.tmo[i][1] = IF s.st[i] = "Finished" THEN "Finished" ELSE s.exc[i]]

call(s, ob, i) ==
  CASE ob[1] = "continue"  -> _continue(s, ob[2])
    [] ob[1] = "mirror"    -> mirror(s, i)
    [] ob[1] = "try_again" -> _try_again(s, ob[2])
    [] ob[1] = "cb"        -> cb(s, ob[2])
    [] ob[1] = "user"      -> user(s, i)

RECURSIVE emit(_, _, _)
emit(s, obs, i) ==
  IF obs = <<>> THEN s ELSE emit(call(s, Head(obs), i), Tail(obs), i)

\* InProgress.finish
IP_finish(s, i, v) ==
  IF is_finished(s, i) THEN [s EXCEPT !.failure = TRUE]
  ELSE LET s1 == [s EXCEPT !.st[i] = "Finished", !.result[i] = v]
           s2 == emit(s1, s1.fobs[i], i)
       IN [s2 EXCEPT !.fobs[i] = <<>>, !.eobs[i] = <<>>]

\* InProgress.throw: the failure is unhandled unless an exception observer
\* is connected
IP_throw(s, i, e) ==
  IF is_finished(s, i) THEN [s EXCEPT !.failure = TRUE]
  ELSE LET s1 == [s EXCEPT !.st[i] = "Failed", !.exc[i] = e,
                           !.unhandled[i] = (s.eobs[i] = <<>>)]
           s2 == emit(s1, s1.eobs[i], i)
       IN [s2 EXCEPT !.fobs[i] = <<>>, !.eobs[i] = <<>>]

\* ------------------------------------------------------ CoroutineInProgress
RECURSIVE _stop(_, _, _)
RECURSIVE stop(_, _)

\* faulty variant: stop() without the test of self._coroutine
stop_mut(s, t) == _stop(s, t, FALSE)

\* CoroutineInProgress.stop
stop(s, t) == IF s.coroutine[t] THEN _stop(s, t, FALSE) ELSE s

\* faulty variant: _stop() leaves the task in _active_coroutines
_stop_mut(s, t, finished) ==
  LET p  == s.prereq[t]
      s3 == IF p \in TaskIds
            THEN stop(disconnect(s, p, <<"continue", t>>), p)
            ELSE s
      s4 == IF ~finished /\ Len(s3.eobs[t]) > 0
            THEN IP_throw(s3, t, "GeneratorExit")
            ELSE s3
  IN [s4 EXCEPT !.closed[t] = UpTo2(@), !.timer[t] = "none",
                !.coroutine[t] = FALSE, !.prereq[t] = NoIP]

\* CoroutineInProgress._stop
_stop(s, t, finished) ==
  LET s1 == IF s.timer[t] = "active" THEN Timer_stop(s, t) ELSE s
      s2 == [s1 EXCEPT !.active_coroutines = @ \ {t}]
      p  == s2.prereq[t]
      s3 == IF p \in TaskIds
            THEN stop(disconnect(s2, p, <<"continue", t>>), p)
            ELSE s2
      s4 == IF ~finished /\ Len(s3.eobs[t]) > 0
            THEN IP_throw(s3, t, "GeneratorExit")
            ELSE s3
      s5 == IF finished THEN s4
            ELSE [s4 EXCEPT !.cancelledOn[t] =
                    <<p, IF p = NoIP THEN "none" ELSE s.st[p]>>]
  IN [s5 EXCEPT !.closed[t] = UpTo2(@), !.timer[t] = "none",
                !.coroutine[t] = FALSE, !.prereq[t] = NoIP]

\* InProgress.timeout(self, timeout, callback): a new promise that mirrors
\* this one
IP_timeout(s, t, callback) ==
  connect_both([s EXCEPT !.tmo[t] = <<"Pending", callback, FALSE>>], t,
               <<"mirror", t>>)

\* The timeout expires while its promise is pending: the promise stops
\* mirroring, the callback is called, the promise fails with TimeoutException.
IP_timeout_expire(s, t) ==
  LET s1 == disconnect(s, t, <<"mirror", t>>)
      s2 == IF s.tmo[t][2] THEN stop(s1, t) ELSE s1
  IN [s2 EXCEPT !.tmo[t] = <<"TimedOut", s.tmo[t][2], s.coroutine[t]>>]

\* faulty variant: timeout() passes no callback
timeout_mut(s, t) == IP_timeout(s, t, FALSE)

\* CoroutineInProgress.timeout
timeout(s, t) == IP_timeout(s, t, TRUE)

\* faulty variant: throw() without the _stop() before it
throw_mut(s, t, e) == IP_throw(s, t, e)

\* faulty variant: throw() settles the promise before it stops the task
throw_mut_late(s, t, e) == _stop(IP_throw(s, t, e), t, TRUE)

\* CoroutineInProgress.throw
throw(s, t, e) == IP_throw(_stop(s, t, TRUE), t, e)

\* the errors _step re-raises to the main loop
HostFatal == {"KeyboardInterrupt", "SystemExit"}

\* faulty variant: the except clause re-raises the signal without throw()
_step_except_mut(s, t, e) ==
  IF e \in HostFatal THEN [s EXCEPT !.reraised[t] = "unsettled"]
  ELSE throw(s, t, e)

\* the except clause of _step: self.throw(*sys.exc_info()), then raise if
\* the error is a KeyboardInterrupt or SystemExit
_step_except(s, t, e) ==
  LET s1 == throw(s, t, e)
  IN IF e \in HostFatal
     THEN [s1 EXCEPT !.reraised[t] =
             IF s1.st[t] = "Failed" /\ s1.exc[t] = e THEN "settled"
             ELSE "unsettled"]
     ELSE s1

\* The values of the model: a step function returns DoneValue, or the value
\* it was sent plus one; the application finishes a promise with DoneValue.
DoneValue == 7

\* what _process does with the generator: next(), send(value) or throw(error)
Injection(s, ip) ==
  IF ip = NoIP THEN <<"next">>
  ELSE IF s.exc[ip] # "none" THEN <<"throw", s.exc[ip]>>
  ELSE <<"send", s.result[ip]>>

\* what a generator that yielded the InProgress a (or NotFinished, or nothing
\* yet, for a = NoIP) is to be resumed with
Expected(s, a) ==
  IF a = NoIP THEN <<"next">>
  ELSE IF s.st[a] = "Finished" THEN <<"send", s.result[a]>>
  ELSE IF s.st[a] = "Failed" THEN <<"throw", s.exc[a]>>
  ELSE <<"pending">>

\* faulty variant: _process always calls generator.next()
_process_mut(s, t) ==
  [s EXCEPT !.adv[t] = @ + 1,
            !.misinjected = @ \/ <<"next">> # Expected(s, s.awaited[t])]

\* _process(self._coroutine, self._prerequisite_ip): resume the generator
\* with the outcome of the prerequisite
_process(s, t) ==
  LET ip == s.prereq[t]
      s1 == IF ip # NoIP /\ s.exc[ip] # "none"
            THEN [s EXCEPT !.unhandled[ip] = FALSE] ELSE s
      a  == s.awaited[t]
  IN [s1 EXCEPT !.adv[t] = @ + 1,
                !.misinjected = \/ @
                                \/ Injection(s, ip) # Expected(s, a)
                                \/ (a # NoIP /\ s.st[a] = "Failed" /\ s1.unhandled[a])]

\* the value a step function returns when this resumption ends it
Returned(s, t) ==
  LET inj == Injection(s, s.prereq[t])
  IN IF inj[1] = "send" THEN inj[2] + 1 ELSE DoneValue

\* the error a step function raises in this resumption: the error thrown
\* into it, which it did not catch, or an error of its own
Raised(s, t) ==
  LET inj == Injection(s, s.prereq[t])
  IN IF inj[1] = "throw" THEN inj[2] ELSE "Error"

RECURSIVE _step(_, _, _)

\* faulty variant: _step without self._prerequisite_ip = None after _process
_step_mut_keep(s, t, ds) ==
  IF ds = <<>> THEN [s |-> s, ret |-> FALSE, ok |-> FALSE]
  ELSE
    LET d    == Head(ds)
        s0   == _process(s, t)
        s1   == [s0 EXCEPT !.awaited[t] = NoIP]
        last_ == Tail(ds) = <<>>
    IN CASE d[1] = "cont" ->
              [s |-> [s1 EXCEPT !.conts[t] = @ + 1], ret |-> TRUE, ok |-> last_]
         [] d[1] = "await" ->
              LET s2 == [s1 EXCEPT !.prereq[t] = d[2], !.awaited[t] = d[2],
                                   !.terminalPrereq = @ \/ is_finished(s1, d[2])]
              IN IF ~is_finished(s2, d[2])
                 THEN [s |-> connect_both(s2, d[2], <<"continue", t>>),
                       ret |-> FALSE, ok |-> last_]
                 ELSE _step(s2, t, Tail(ds))
         [] d[1] = "done" ->
              [s |-> IP_finish(_stop([s0 EXCEPT !.prereq[t] = NoIP], t, TRUE),
                               t, Returned(s, t)),
               ret |-> FALSE, ok |-> last_]
         [] d[1] = "raise" ->
              [s |-> _step_except(s0, t, Raised(s, t)), ret |-> FALSE, ok |-> last_]
         [] d[1] = "fatal" ->
              [s |-> _step_except(s0, t, "KeyboardInterrupt"), ret |-> FALSE,
               ok |-> last_]

\* faulty variant: _step treats a finished InProgress like an unfinished one
_step_mut(s, t, ds) ==
  IF ds = <<>> THEN [s |-> s, ret |-> FALSE, ok |-> FALSE]
  ELSE
    LET d    == Head(ds)
        s0   == _process(s, t)
        s1   == [s0 EXCEPT !.prereq[t] = NoIP, !.awaited[t] = NoIP]
        last_ == Tail(ds) = <<>>
    IN CASE d[1] = "cont" ->
              [s |-> [s1 EXCEPT !.conts[t] = @ + 1], ret |-> TRUE, ok |-> last_]
         [] d[1] = "await" ->
              LET s2 == [s1 EXCEPT !.prereq[t] = d[2], !.awaited[t] = d[2],
                                   !.terminalPrereq = @ \/ is_finished(s1, d[2])]
              IN [s |-> connect_both(s2, d[2], <<"continue", t>>),
                  ret |-> FALSE, ok |-> last_]
         [] d[1] = "done" ->
              [s |-> IP_finish(_stop([s0 EXCEPT !.prereq[t] = NoIP], t, TRUE),
                               t, Returned(s, t)),
               ret |-> FALSE, ok |-> last_]
         [] d[1] = "raise" ->
              [s |-> _step_except(s0, t, Raised(s, t)), ret |-> FALSE, ok |-> last_]
         [] d[1] = "fatal" ->
              [s |-> _step_except(s0, t, "KeyboardInterrupt"), ret |-> FALSE,
               ok |-> last_]

\* CoroutineInProgress._step, for the directives ds the generator yields in
\* this call.  ok: the call consumed exactly ds.
_step(s, t, ds) ==
  IF ds = <<>> THEN [s |-> s, ret |-> FALSE, ok |-> FALSE]
  ELSE
    LET d    == Head(ds)
        \* result = _process(...): an error the generator raises leaves
        \* self._prerequisite_ip as it was
        s0   == _process(s, t)
        \* self._prerequisite_ip = None
        s1   == [s0 EXCEPT !.prereq[t] = NoIP, !.awaited[t] = NoIP]
        last_ == Tail(ds) = <<>>
    IN CASE d[1] = "cont" ->
              [s |-> [s1 EXCEPT !.conts[t] = @ + 1], ret |-> TRUE, ok |-> last_]
         [] d[1] = "await" ->
              LET s2 == [s1 EXCEPT !.prereq[t] = d[2], !.awaited[t] = d[2],
                                   !.terminalPrereq = @ \/ is_finished(s1, d[2])]
              IN IF ~is_finished(s2, d[2])
                 THEN [s |-> connect_both(s2, d[2], <<"continue", t>>),
                       ret |-> FALSE, ok |-> last_]
                 ELSE _step(s2, t, Tail(ds))
         [] d[1] = "done" ->
              [s |-> IP_finish(_stop([s0 EXCEPT !.prereq[t] = NoIP], t, TRUE),
                               t, Returned(s, t)),
               ret |-> FALSE, ok |-> last_]
         [] d[1] = "raise" ->
              [s |-> _step_except(s0, t, Raised(s, t)), ret |-> FALSE, ok |-> last_]
         [] d[1] = "fatal" ->
              [s |-> _step_except(s0, t, "KeyboardInterrupt"), ret |-> FALSE,
               ok |-> last_]

\* faulty variant: the constructor does not register the task in _active_coroutines
CoroutineInProgress_mut(s, t) ==
  [s EXCEPT !.ntasks = t, !.coroutine[t] = TRUE, !.timer[t] = "idle",
            !.prereq[t] = NoIP]

\* CoroutineInProgress.__init__ (progress=None)
CoroutineInProgress(s, t) ==
  [s EXCEPT !.ntasks = t, !.coroutine[t] = TRUE, !.timer[t] = "idle",
            !.prereq[t] = NoIP, !.active_coroutines = @ \cup {t}]

\* CoroutineLockedInProgress.__init__
CoroutineLockedInProgress(s, t) ==
  LET s1 == [CoroutineInProgress(s, t) EXCEPT !.locked[t] = TRUE]
  IN connect_both(s1, s1.lock, <<"try_again", t>>)

\* ------------------------------------------------------------ the decorator
\* faulty variant: wrap() keeps the entry for POLICY_PASS_LAST only
wrap_mut_policy(s, obj) ==
  IF s.policy \in {POLICY_PASS_LAST} /\ ~is_finished(s, obj)
  THEN connect_both([s EXCEPT !.last = Append(@, obj)], obj, <<"cb", obj>>)
  ELSE s

\* faulty variant: wrap() also keeps a task that is finished already
wrap_mut_finished(s, obj) ==
  IF s.policy \in {POLICY_SINGLETON, POLICY_PASS_LAST}
  THEN connect_both([s EXCEPT !.last = Append(@, obj)], obj, <<"cb", obj>>)
  ELSE s

\* faulty variant: wrap() puts the new task at the front of last
wrap_mut_front(s, obj) ==
  IF s.policy \in {POLICY_SINGLETON, POLICY_PASS_LAST} /\ ~is_finished(s, obj)
  THEN connect_both([s EXCEPT !.last = <<obj>> \o @], obj, <<"cb", obj>>)
  ELSE s

\* wrap(obj) inside newfunc
wrap(s, obj) ==
  IF s.policy \in {POLICY_SINGLETON, POLICY_PASS_LAST} /\ ~is_finished(s, obj)
  THEN connect_both([s EXCEPT !.last = Append(@, obj)], obj, <<"cb", obj>>)
  ELSE s

\* faulty variant: the lock test with is_finished() not negated
lock_held_mut(s) ==
  s.policy = POLICY_SYNCHRONIZED /\ s.lock # NoIP /\ is_finished(s, s.lock)

\* newfunc's test "function is currently called by someone else"
lock_held(s) ==
  s.policy = POLICY_SYNCHRONIZED /\ s.lock # NoIP /\ ~is_finished(s, s.lock)

\* faulty variant: newfunc leaves the first advance to the timer
newfunc_mut(s, ds) ==
  LET t == s.ntasks + 1
  IN [s |-> wrap(Timer_start(CoroutineInProgress(s, t), t), t), ret |-> t,
      ok |-> ds = <<>>]

\* newfunc: one invocation of the decorated function; ds are the directives
\* the eager advance obtains.  ret: the handle returned to the caller.
newfunc(s, ds) ==
  IF s.policy = POLICY_SINGLETON /\ s.last # <<>>
  THEN [s |-> [s EXCEPT !.reused = TRUE], ret |-> s.last[Len(s.last)],
        ok |-> ds = <<>>]
  ELSE
    LET t  == s.ntasks + 1
        la == IF s.policy = POLICY_PASS_LAST /\ s.last # <<>>
              THEN s.last[Len(s.last)] ELSE NoIP
        s0 == [s EXCEPT !.lastArg[t] = la]
    IN IF lock_held(s)
       THEN [s |-> wrap(CoroutineLockedInProgress(s0, t), t), ret |-> t,
             ok |-> ds = <<>>]
       ELSE
         LET ip == CoroutineInProgress(s0, t)
             s1 == IF s.policy = POLICY_SYNCHRONIZED
                   THEN [ip EXCEPT !.lock = t] ELSE ip
             r  == _step(s1, t, ds)
             s2 == IF r.ret THEN Timer_start(r.s, t) ELSE r.s
         IN IF r.s.reraised[t] # "no"
            \* the signal leaves newfunc: no wrap(), no handle for the caller
            THEN [s |-> r.s, ret |-> NoIP, ok |-> r.ok]
            ELSE [s |-> wrap(s2, t), ret |-> t, ok |-> r.ok]

\* ------------------------------------------------------- step functions
\* The directives one call of _step can obtain from the generator of task t:
\* Await of already settled promises, then one directive that ends the call.
\* MaxAdvances bounds the resumptions of all generators together.
Targets(s, t) == Plain \cup {j \in 1..s.ntasks : j < t}

RECURSIVE SeqsUpTo(_, _)
SeqsUpTo(S, n) ==
  IF n = 0 THEN {<<>>}
  ELSE LET shorter == SeqsUpTo(S, n - 1)
       IN shorter \cup {Append(q, x) : q \in shorter, x \in S}

\* generator resumptions so far, over all tasks
RECURSIVE Advances(_, _)
Advances(f, n) == IF n = 0 THEN 0 ELSE f[n] + Advances(f, n - 1)

DirSeqs(s, t) ==
  LET room   == MaxAdvances - Advances(s.adv, MaxTasks)
      inline == {<<"await", i>> : i \in {j \in Targets(s, t) : is_finished(s, j)}}
      ending == {<<"done", NoIP>>, <<"raise", NoIP>>} \cup
                (IF s.signals THEN {<<"fatal", NoIP>>} ELSE {})
      going  == {<<"cont", NoIP>>} \cup
                {<<"await", i>> : i \in {j \in Targets(s, t) : ~is_finished(s, j)}}
  IN IF room <= 0 THEN {}
     ELSE {Append(pre, d) : pre \in SeqsUpTo(inline, room - 1),
                            d \in ending \cup going}

\* The directives the eager advance of the next invocation can obtain (none
\* when the invocation does not enter the step function).
NewSeqs(s) ==
  {<<>>} \cup (IF s.ntasks < MaxTasks THEN DirSeqs(s, s.ntasks + 1) ELSE {})

\* ------------------------------------------------------------------ actions
\* The state after the module is loaded and the function decorated; sig: the
\* step functions may raise KeyboardInterrupt.
EngineStart(sig) ==
  /\ policy \in Policies
  /\ ntasks = 0
  /\ st = [i \in Ids |-> "Pending"]
  /\ exc = [i \in Ids |-> "none"]
  /\ fobs = [i \in Ids |-> <<>>]
  /\ eobs = [i \in Ids |-> <<>>]
  /\ coroutine = [t \in TaskIds |-> FALSE]
  /\ timer = [t \in TaskIds |-> "none"]
  /\ prereq = [t \in TaskIds |-> NoIP]
  /\ active_coroutines = {}
  /\ locked = [t \in TaskIds |-> FALSE]
  /\ lock = NoIP
  /\ last = <<>>
  /\ lastArg = [t \in TaskIds |-> NoIP]
  /\ adv = [t \in TaskIds |-> 0]
  /\ closed = [t \in TaskIds |-> 0]
  /\ notified = [t \in TaskIds |-> 0]
  /\ sawLast = FALSE
  /\ cancelledOn = [t \in TaskIds |-> <<>>]
  /\ restopped = FALSE
  /\ reused = FALSE
  /\ failure = FALSE
  /\ result = [i \in Ids |-> 0]
  /\ unhandled = [i \in Ids |-> FALSE]
  /\ awaited = [t \in TaskIds |-> NoIP]
  /\ misinjected = FALSE
  /\ fires = [t \in TaskIds |-> 0]
  /\ conts = [t \in TaskIds |-> 0]
  /\ sawAlive = [t \in TaskIds |-> FALSE]
  /\ terminalPrereq = FALSE
  /\ signals = sig
  /\ reraised = [t \in TaskIds |-> "no"]
  /\ tmo = [t \in TaskIds |-> <<"none", FALSE, FALSE>>]

EngineInit == EngineStart(FALSE)

\* The application calls the decorated function.
Invoke ==
  /\ (policy = POLICY_SINGLETON /\ last # <<>>) \/ ntasks < MaxTasks
  /\ \E ds \in NewSeqs(Cur) :
       LET r == newfunc(Cur, ds) IN r.ok /\ Apply(r.s)

\* The timer of task t fires: Timer(self._step).
TimerFire(t) ==
  /\ t <= ntasks /\ timer[t] = "active"
  /\ \E ds \in DirSeqs(Cur, t) :
       LET r == _step([Cur EXCEPT !.fires[t] = @ + 1], t, ds)
       IN /\ r.ok
          /\ Apply(IF ~r.ret /\ r.s.timer[t] = "active" THEN Timer_stop(r.s, t) ELSE r.s)

\* The application settles the plain promise.
Settle(p) ==
  /\ st[p] = "Pending"
  /\ \/ Apply(IP_finish(Cur, p, DoneValue))
     \/ Apply(IP_throw(Cur, p, "Error"))

\* The application calls stop() on a task it holds.
Stop(t) ==
  /\ t <= ntasks
  /\ Apply([stop(Cur, t) EXCEPT !.restopped = @ \/ ~coroutine[t]])

\* The application connects an observer to a pending task it holds:
\* connect_both (both) or connect (the finished signal only).
Connect(t) ==
  /\ t <= ntasks /\ st[t] = "Pending"
  /\ ~InSeq(<<"user", t>>, fobs[t])
  /\ \/ Apply(connect_both(Cur, t, <<"user", t>>))
     \/ Apply(connect(Cur, t, <<"user", t>>))

\* The application calls timeout() on a pending task it holds, before it
\* connects an observer of its own.
Timeout(t) ==
  /\ t <= ntasks /\ st[t] = "Pending" /\ tmo[t][1] = "none"
  /\ ~InSeq(<<"user", t>>, fobs[t])
  /\ Apply(timeout(Cur, t))

\* The time of a timeout() call is over and its promise is still pending.
Expire(t) ==
  /\ tmo[t][1] = "Pending"
  /\ Apply(IP_timeout_expire(Cur, t))

\* ====================================================== main-thread wake queue
\* src/src/thread.py: _thread_notifier_queue, _thread_notifier_lock and
\* _thread_notifier_pipe.  Worker threads run _thread_notifier_queue_callback,
\* the main thread creates the pipe and runs _thread_notifier_run_queue when
\* the pipe is readable.  Entries are numbered in the order their enqueue
\* calls start.
Workers == {"w1", "w2"}
Entries == 1..MaxEntries

\* entries whose enqueue call has returned
Completed ==
  {e \in 1..issued : \A w \in Workers : ~(wpc[w] # "idle" /\ went[w] = e)}

\* the main thread is inside _thread_notifier_run_queue
InPass == mpc \in {"acquire", "drain", "raise", "emit"}

\* faulty variant: pop() takes the newest entry
pop_mut(q) == [entry |-> q[Len(q)], rest |-> SubSeq(q, 1, Len(q) - 1)]

\* _thread_notifier_queue.pop(0)
pop(q) == [entry |-> Head(q), rest |-> Tail(q)]

QueueInit ==
  /\ queue = <<>>
  /\ qlock = "free"
  /\ pipe = FALSE
  /\ bytes = 0
  /\ wpc = [w \in Workers |-> "idle"]
  /\ went = [w \in Workers |-> 1]
  /\ mpc = "loop"
  /\ issued = 0
  /\ before = [e \in Entries |-> {}]
  /\ ran = <<>>

\* A worker thread calls _thread_notifier_queue_callback.
Enqueue_call(w) ==
  /\ wpc[w] = "idle" /\ issued < MaxEntries
  /\ issued' = issued + 1
  /\ went' = [went EXCEPT ![w] = issued + 1]
  /\ before' = [before EXCEPT ![issued + 1] = Completed]
  /\ wpc' = [wpc EXCEPT ![w] = "acquire"]
  /\ during' = IF InPass THEN during \cup {issued + 1} ELSE during
  /\ UNCHANGED <<queue, qlock, pipe, bytes, mpc, ran, qst, qraise>>
  /\ UNCHANGED <<engineVars, threadVars, jobVars, pipeVars, poolVars, killVars, yieldVars,
               syncVars>>

\* _thread_notifier_lock.acquire()
Enqueue_acquire(w) ==
  /\ wpc[w] = "acquire" /\ qlock = "free"
  /\ qlock' = w
  /\ wpc' = [wpc EXCEPT ![w] = "append"]
  /\ UNCHANGED <<queue, pipe, bytes, went, mpc, issued, before, ran>>
  /\ UNCHANGED <<engineVars, threadVars, jobVars, drainVars, pipeVars, poolVars, killVars, yieldVars,
               syncVars>>

\* _thread_notifier_queue.append(...)
Enqueue_append(w) ==
  /\ wpc[w] = "append"
  /\ queue' = Append(queue, went[w])
  /\ wpc' = [wpc EXCEPT ![w] = "write"]
  /\ during' = IF InPass THEN during \cup {went[w]} ELSE during
  /\ UNCHANGED <<qlock, pipe, bytes, went, mpc, issued, before, ran, qst, qraise>>
  /\ UNCHANGED <<engineVars, threadVars, jobVars, pipeVars, poolVars, killVars, yieldVars,
               syncVars>>

\* if len(queue) == 1: if pipe: os.write(pipe[1], "1")
Enqueue_write(w) ==
  /\ wpc[w] = "write"
  /\ bytes' = IF Len(queue) = 1 /\ pipe THEN bytes + 1 ELSE bytes
  /\ wpc' = [wpc EXCEPT ![w] = "release"]
  /\ UNCHANGED <<queue, qlock, pipe, went, mpc, issued, before, ran>>
  /\ UNCHANGED <<engineVars, threadVars, jobVars, drainVars, pipeVars, poolVars, killVars, yieldVars,
               syncVars>>

\* _thread_notifier_lock.release()
Enqueue_release(w) ==
  /\ wpc[w] = "release"
  /\ qlock' = "free"
  /\ wpc' = [wpc EXCEPT ![w] = "idle"]
  /\ UNCHANGED <<queue, pipe, bytes, went, mpc, issued, before, ran>>
  /\ UNCHANGED <<engineVars, threadVars, jobVars, drainVars, pipeVars, poolVars, killVars, yieldVars,
               syncVars>>

\* set_as_mainthread: no pipe yet, create_thread_notifier_pipe() installs one
Pipe_create ==
  /\ mpc = "loop" /\ ~pipe
  /\ pipe' = TRUE
  /\ mpc' = "created"
  /\ UNCHANGED <<queue, qlock, bytes, wpc, went, issued, before, ran>>
  /\ UNCHANGED <<engineVars, threadVars, jobVars, drainVars, pipeVars, poolVars, killVars, yieldVars,
               syncVars>>

\* create_thread_notifier_pipe: if _thread_notifier_queue: os.write(pipe[1], "1")
Pipe_kick ==
  /\ mpc = "created"
  /\ bytes' = IF queue # <<>> THEN bytes + 1 ELSE bytes
  /\ mpc' = "loop"
  /\ UNCHANGED <<queue, qlock, pipe, wpc, went, issued, before, ran>>
  /\ UNCHANGED <<engineVars, threadVars, jobVars, drainVars, pipeVars, poolVars, killVars, yieldVars,
               syncVars>>

PipeInit == purged = {}

\* faulty variant: the purge leaves the queue as it is
purge_mut(q) == q

\* del _thread_notifier_queue[:]
purge(q) == <<>>

\* create_thread_notifier_pipe(new, purge) is called while a pipe exists:
\* the old pipe is no longer monitored (notifier.socket_remove)
Pipe_recreate ==
  /\ mpc = "loop" /\ pipe
  /\ \E p \in BOOLEAN : mpc' = IF p THEN "purge" ELSE "install"
  /\ UNCHANGED <<queue, qlock, pipe, bytes, wpc, went, issued, before, ran>>
  /\ UNCHANGED <<engineVars, threadVars, jobVars, drainVars, pipeVars, poolVars, killVars, yieldVars,
               syncVars>>

\* if purge: _thread_notifier_lock.acquire()
Pipe_purge_acquire ==
  /\ mpc = "purge" /\ qlock = "free"
  /\ qlock' = "main"
  /\ mpc' = "purging"
  /\ UNCHANGED <<queue, pipe, bytes, wpc, went, issued, before, ran>>
  /\ UNCHANGED <<engineVars, threadVars, jobVars, drainVars, pipeVars, poolVars, killVars, yieldVars,
               syncVars>>

\* del _thread_notifier_queue[:]; _thread_notifier_lock.release()
Pipe_purge ==
  /\ mpc = "purging"
  /\ queue' = purge(queue)
  /\ purged' = purged \cup {queue[k] : k \in 1..Len(queue)}
  /\ during' = during \ {queue[k] : k \in 1..Len(queue)}
  /\ qlock' = "free"
  /\ mpc' = "install"
  /\ UNCHANGED <<pipe, bytes, wpc, went, issued, before, ran, qst, qraise>>
  /\ UNCHANGED <<engineVars, threadVars, jobVars, poolVars, killVars, yieldVars,
               syncVars>>

\* _thread_notifier_pipe = os.pipe(); notifier.socket_add(...): the new pipe
\* is empty, what was written to the old one is lost
Pipe_install ==
  /\ mpc = "install"
  /\ pipe' = TRUE
  /\ bytes' = 0
  /\ mpc' = "created"
  /\ UNCHANGED <<queue, qlock, wpc, went, issued, before, ran>>
  /\ UNCHANGED <<engineVars, threadVars, jobVars, drainVars, pipeVars, poolVars, killVars, yieldVars,
               syncVars>>

\* The pipe is readable and the main loop calls _thread_notifier_run_queue:
\* os.read(pipe[0], 1000)
Drain_read ==
  /\ mpc = "loop" /\ pipe /\ bytes > 0
  /\ bytes' = 0
  /\ mpc' = "acquire"
  /\ UNCHANGED <<queue, qlock, pipe, wpc, went, issued, before, ran>>
  /\ UNCHANGED <<engineVars, threadVars, jobVars, drainVars, pipeVars, poolVars, killVars, yieldVars,
               syncVars>>

\* _thread_notifier_lock.acquire()
Drain_acquire ==
  /\ mpc = "acquire" /\ qlock = "free"
  /\ qlock' = "main"
  /\ mpc' = "drain"
  /\ UNCHANGED <<queue, pipe, bytes, wpc, went, issued, before, ran>>
  /\ UNCHANGED <<engineVars, threadVars, jobVars, drainVars, pipeVars, poolVars, killVars, yieldVars,
               syncVars>>

\* faulty variant: a KeyboardInterrupt is re-raised without the throw
settle_mut(q, e, out) == IF out = "KeyboardInterrupt" THEN q ELSE [q EXCEPT ![e] = out]

\* in_progress.finish(callback(...)), or in_progress.throw(*sys.exc_info())
settle(q, e, out) == [q EXCEPT ![e] = out]

DrainInit ==
  /\ qst = [e \in Entries |-> "Pending"]
  /\ qraise = 0
  /\ during = {}

\* One turn of the while loop: pop(0), run the callable (any but the one of
\* the one-shot thread below), finish its promise or throw the exception it
\* raised.  After a KeyboardInterrupt or SystemExit the raise statement is next.
Drain_pop ==
  /\ mpc = "drain" /\ queue # <<>> /\ pop(queue).entry # tentry
  /\ queue' = pop(queue).rest
  /\ ran' = Append(ran, pop(queue).entry)
  /\ \/ /\ \E out \in {"Finished", "Error"} :
              qst' = settle(qst, pop(queue).entry, out)
        /\ UNCHANGED <<qlock, mpc, qraise>>
     \/ /\ qst' = settle(qst, pop(queue).entry, "KeyboardInterrupt")
        /\ qraise' = pop(queue).entry
        /\ mpc' = "raise"
        /\ UNCHANGED qlock
  /\ during' = during \ {pop(queue).entry}
  /\ UNCHANGED <<pipe, bytes, wpc, went, issued, before>>
  /\ UNCHANGED <<engineVars, threadVars, jobVars, pipeVars, poolVars, killVars, yieldVars,
               syncVars>>

\* raise: the finally clause releases the lock and the signal leaves
\* _thread_notifier_run_queue for the main loop; the pass is over.
Drain_reraise ==
  /\ mpc = "raise"
  /\ qlock' = "free"
  /\ mpc' = "loop"
  /\ qraise' = 0
  /\ UNCHANGED <<queue, pipe, bytes, wpc, went, issued, before, ran, qst, during>>
  /\ UNCHANGED <<engineVars, threadVars, jobVars, pipeVars, poolVars, killVars, yieldVars,
               syncVars>>

\* The queue is empty: the loop ends, the lock is released.
Drain_release ==
  /\ mpc = "drain" /\ queue = <<>>
  /\ qlock' = "free"
  /\ mpc' = "loop"
  /\ UNCHANGED <<queue, pipe, bytes, wpc, went, issued, before, ran>>
  /\ UNCHANGED <<engineVars, threadVars, jobVars, drainVars, pipeVars, poolVars, killVars, yieldVars,
               syncVars>>

\* ============================================================ one-shot thread
\* src/src/thread.py: ThreadCallback._create_thread, ThreadInProgress.__call__
\* and MainThreadCallback.__call__.
MainThread == "main"
OneShot == "thread"
ThreadValue == 99

\* faulty variant: every thread passes for the main thread
is_mainthread_mut(th) == TRUE

\* is_mainthread(), called in thread th
is_mainthread(th) == th = MainThread

ThreadInit ==
  /\ tpc = "none"
  /\ tst = "Pending"
  /\ tval = 0
  /\ tobs = <<>>
  /\ tentry = 0
  /\ tkind = "none"
  /\ tpend = <<>>
  /\ settledBy = "nobody"
  /\ joined = FALSE
  /\ userSaw = "none"

\* The main thread calls the ThreadCallback: _create_thread connects join to
\* the new ThreadInProgress and starts the thread.
Thread_create ==
  /\ mpc = "loop" /\ tpc = "none"
  /\ tobs' = <<"join">>
  /\ tpc' = "run"
  /\ UNCHANGED <<tst, tval, tentry, tkind, tpend, settledBy, joined, userSaw>>
  /\ UNCHANGED <<engineVars, queueVars, jobVars, drainVars, pipeVars, poolVars, killVars, yieldVars,
               syncVars>>

\* The caller connects an observer to the ThreadInProgress it was returned.
Thread_connect ==
  /\ mpc = "loop" /\ tpc # "none" /\ tst = "Pending"
  /\ ~InSeq("user", tobs)
  /\ tobs' = Append(tobs, "user")
  /\ UNCHANGED <<tpc, tst, tval, tentry, tkind, tpend, settledBy, joined, userSaw>>
  /\ UNCHANGED <<engineVars, queueVars, jobVars, drainVars, pipeVars, poolVars, killVars, yieldVars,
               syncVars>>

\* ThreadInProgress.__call__ in the thread: the callback returns a value or
\* raises, and MainThreadCallback(self.finish) or MainThreadCallback(self.throw)
\* is called: in the main thread it would run at once, in any other thread it
\* calls _thread_notifier_queue_callback.
Thread_run ==
  /\ tpc = "run" /\ issued < MaxEntries
  /\ \E k \in {"finish", "throw"} :
       /\ tkind' = k
       /\ IF is_mainthread(OneShot)
          THEN /\ tst' = IF k = "finish" THEN "Finished" ELSE "Failed"
               /\ tval' = IF k = "finish" THEN ThreadValue ELSE 0
               /\ settledBy' = OneShot
               /\ userSaw' = IF InSeq("user", tobs) THEN "running" ELSE userSaw
               /\ tpc' = "clear"
               /\ UNCHANGED <<tentry, issued, before>>
          ELSE /\ tentry' = issued + 1
               /\ issued' = issued + 1
               /\ before' = [before EXCEPT ![issued + 1] = Completed]
               /\ tpc' = "acquire"
               /\ UNCHANGED <<tst, tval, settledBy, userSaw>>
  /\ UNCHANGED <<tobs, tpend, joined>>
  /\ UNCHANGED <<queue, qlock, pipe, bytes, wpc, went, mpc, ran>>
  /\ UNCHANGED <<engineVars, jobVars, drainVars, pipeVars, poolVars, killVars, yieldVars,
               syncVars>>

\* _thread_notifier_queue_callback in the one-shot thread
Thread_acquire ==
  /\ tpc = "acquire" /\ qlock = "free"
  /\ qlock' = OneShot
  /\ tpc' = "append"
  /\ UNCHANGED <<queue, pipe, bytes, wpc, went, mpc, issued, before, ran>>
  /\ UNCHANGED <<tst, tval, tobs, tentry, tkind, tpend, settledBy, joined, userSaw>>
  /\ UNCHANGED <<engineVars, jobVars, drainVars, pipeVars, poolVars, killVars, yieldVars,
               syncVars>>

Thread_append ==
  /\ tpc = "append"
  /\ queue' = Append(queue, tentry)
  /\ tpc' = "write"
  /\ UNCHANGED <<qlock, pipe, bytes, wpc, went, mpc, issued, before, ran>>
  /\ UNCHANGED <<tst, tval, tobs, tentry, tkind, tpend, settledBy, joined, userSaw>>
  /\ UNCHANGED <<engineVars, jobVars, drainVars, pipeVars, poolVars, killVars, yieldVars,
               syncVars>>

Thread_write ==
  /\ tpc = "write"
  /\ bytes' = IF Len(queue) = 1 /\ pipe THEN bytes + 1 ELSE bytes
  /\ tpc' = "release"
  /\ UNCHANGED <<queue, qlock, pipe, wpc, went, mpc, issued, before, ran>>
  /\ UNCHANGED <<tst, tval, tobs, tentry, tkind, tpend, settledBy, joined, userSaw>>
  /\ UNCHANGED <<engineVars, jobVars, drainVars, pipeVars, poolVars, killVars, yieldVars,
               syncVars>>

Thread_release ==
  /\ tpc = "release"
  /\ qlock' = "free"
  /\ tpc' = "clear"
  /\ UNCHANGED <<queue, pipe, bytes, wpc, went, mpc, issued, before, ran>>
  /\ UNCHANGED <<tst, tval, tobs, tentry, tkind, tpend, settledBy, joined, userSaw>>
  /\ UNCHANGED <<engineVars, jobVars, drainVars, pipeVars, poolVars, killVars, yieldVars,
               syncVars>>

\* self._callback = None, and the thread's target returns
Thread_exit ==
  /\ tpc = "clear"
  /\ tpc' = "done"
  /\ UNCHANGED <<tst, tval, tobs, tentry, tkind, tpend, settledBy, joined, userSaw>>
  /\ UNCHANGED <<engineVars, queueVars, jobVars, drainVars, pipeVars, poolVars, killVars, yieldVars,
               syncVars>>

\* A turn of the drain loop that pops the entry of the one-shot thread: its
\* callable settles the ThreadInProgress, whose callbacks are then called in
\* the order of their connection.
Drain_pop_thread ==
  /\ mpc = "drain" /\ queue # <<>> /\ pop(queue).entry = tentry
  /\ queue' = pop(queue).rest
  /\ ran' = Append(ran, pop(queue).entry)
  /\ tst' = IF tkind = "finish" THEN "Finished" ELSE "Failed"
  /\ tval' = IF tkind = "finish" THEN ThreadValue ELSE 0
  /\ settledBy' = MainThread
  /\ tpend' = tobs
  /\ tobs' = <<>>
  /\ mpc' = "emit"
  /\ UNCHANGED <<tpc, tentry, tkind, joined, userSaw>>
  /\ UNCHANGED <<qlock, pipe, bytes, wpc, went, issued, before>>
  /\ UNCHANGED <<engineVars, jobVars, drainVars, pipeVars, poolVars, killVars, yieldVars,
               syncVars>>

\* join = lambda: t.join(): blocks the calling thread until the thread exited
Emit_join ==
  /\ mpc = "emit" /\ tpend # <<>> /\ Head(tpend) = "join"
  /\ tpc = "done"
  /\ joined' = TRUE
  /\ tpend' = Tail(tpend)
  /\ UNCHANGED <<tpc, tst, tval, tobs, tentry, tkind, settledBy, userSaw>>
  /\ UNCHANGED <<engineVars, queueVars, jobVars, drainVars, pipeVars, poolVars, killVars, yieldVars,
               syncVars>>

\* the caller's observer is called
Emit_user ==
  /\ mpc = "emit" /\ tpend # <<>> /\ Head(tpend) = "user"
  /\ userSaw' = IF joined /\ tpc = "done" THEN "joined" ELSE "running"
  /\ tpend' = Tail(tpend)
  /\ UNCHANGED <<tpc, tst, tval, tobs, tentry, tkind, settledBy, joined>>
  /\ UNCHANGED <<engineVars, queueVars, jobVars, drainVars, pipeVars, poolVars, killVars, yieldVars,
               syncVars>>

\* the emission is over: back in the drain loop
Emit_end ==
  /\ mpc = "emit" /\ tpend = <<>>
  /\ mpc' = "drain"
  /\ UNCHANGED <<queue, qlock, pipe, bytes, wpc, went, issued, before, ran>>
  /\ UNCHANGED threadVars
  /\ UNCHANGED <<engineVars, jobVars, drainVars, pipeVars, poolVars, killVars, yieldVars,
               syncVars>>

\* ================================================================ job server
\* src/src/thread.py: _JobServer.add, called by any thread, and
\* _JobServer.run, the server thread.
JobIds == 1..MaxJobs
Priorities == 0..MaxPriority

\* x is put behind the jobs that do not compare greater than it: greater(a, b)
\* is cmp(a, b) > 0 for the sort's comparison function
RECURSIVE InsertBy(_, _, _, _)
InsertBy(x, q, pr, desc) ==
  IF q = <<>> THEN <<x>>
  ELSE LET greater == IF desc THEN pr[Head(q)] < pr[x] ELSE pr[Head(q)] > pr[x]
       IN IF greater THEN <<x>> \o q
          ELSE <<Head(q)>> \o InsertBy(x, Tail(q), pr, desc)

\* list.sort(cmp), a stable sort
RECURSIVE SortBy(_, _, _)
SortBy(q, pr, desc) ==
  IF q = <<>> THEN <<>>
  ELSE InsertBy(q[Len(q)], SortBy(SubSeq(q, 1, Len(q) - 1), pr, desc), pr, desc)

\* faulty variant: the comparison function without the negation
sort_mut(q, pr) == SortBy(q, pr, FALSE)

\* self.jobs.sort(lambda x,y: -cmp(x.priority, y.priority))
sort(q, pr) == SortBy(q, pr, TRUE)

JobInit ==
  /\ jobs = <<>>
  /\ jprio = [j \in JobIds |-> 0]
  /\ jcount = 0
  /\ jcond = "free"
  /\ apc = [w \in Workers |-> "idle"]
  /\ aprio = [w \in Workers |-> 0]
  /\ spc = "top"
  /\ jcur = 0
  /\ jran = <<>>

\* A thread calls add() with a job of some priority.
Job_add_call(w) ==
  /\ apc[w] = "idle"
  /\ jcount + Cardinality({v \in Workers : apc[v] # "idle"}) < MaxJobs
  /\ \E pr \in Priorities : aprio' = [aprio EXCEPT ![w] = pr]
  /\ apc' = [apc EXCEPT ![w] = "acquire"]
  /\ UNCHANGED <<jobs, jprio, jcount, jcond, spc, jcur, jran>>
  /\ UNCHANGED <<engineVars, queueVars, threadVars, drainVars, pipeVars, poolVars, killVars, yieldVars,
               syncVars>>

\* self.condition.acquire()
Job_add_acquire(w) ==
  /\ apc[w] = "acquire" /\ jcond = "free"
  /\ jcond' = w
  /\ apc' = [apc EXCEPT ![w] = "append"]
  /\ UNCHANGED <<jobs, jprio, jcount, aprio, spc, jcur, jran>>
  /\ UNCHANGED <<engineVars, queueVars, threadVars, drainVars, pipeVars, poolVars, killVars, yieldVars,
               syncVars>>

\* self.jobs.append(job); self.jobs.sort(...); self.condition.notify()
Job_add_append(w) ==
  /\ apc[w] = "append"
  /\ LET j  == jcount + 1
         pr == [jprio EXCEPT ![j] = aprio[w]]
     IN /\ jprio' = pr
        /\ jobs' = sort(Append(jobs, j), pr)
        /\ jcount' = j
  /\ apc' = [apc EXCEPT ![w] = "release"]
  /\ UNCHANGED <<jcond, aprio, spc, jcur, jran>>
  /\ UNCHANGED <<engineVars, queueVars, threadVars, drainVars, pipeVars, poolVars, killVars, yieldVars,
               syncVars>>

\* self.condition.release()
Job_add_release(w) ==
  /\ apc[w] = "release"
  /\ jcond' = "free"
  /\ apc' = [apc EXCEPT ![w] = "idle"]
  /\ UNCHANGED <<jobs, jprio, jcount, aprio, spc, jcur, jran>>
  /\ UNCHANGED <<engineVars, queueVars, threadVars, drainVars, pipeVars, poolVars, killVars, yieldVars,
               syncVars>>

\* run(): self.condition.acquire()
Server_acquire ==
  /\ spc = "top" /\ jcond = "free"
  /\ jcond' = "server"
  /\ spc' = "check"
  /\ UNCHANGED <<jobs, jprio, jcount, apc, aprio, jcur, jran>>
  /\ UNCHANGED <<engineVars, queueVars, threadVars, drainVars, pipeVars, poolVars, killVars, yieldVars,
               syncVars>>

\* while not self.jobs: self.condition.wait() gives the condition up
Server_wait ==
  /\ spc = "check" /\ jobs = <<>>
  /\ jcond' = "free"
  /\ spc' = "waiting"
  /\ UNCHANGED <<jobs, jprio, jcount, apc, aprio, jcur, jran>>
  /\ UNCHANGED <<engineVars, queueVars, threadVars, drainVars, pipeVars, poolVars, killVars, yieldVars,
               syncVars>>

\* wait() returns with the condition acquired again
Server_wake ==
  /\ spc = "waiting" /\ jcond = "free"
  /\ jcond' = "server"
  /\ spc' = "check"
  /\ UNCHANGED <<jobs, jprio, jcount, apc, aprio, jcur, jran>>
  /\ UNCHANGED <<engineVars, queueVars, threadVars, drainVars, pipeVars, poolVars, killVars, yieldVars,
               syncVars>>

\* job = self.jobs.pop(0)
Server_pop ==
  /\ spc = "check" /\ jobs # <<>>
  /\ jcur' = pop(jobs).entry
  /\ jobs' = pop(jobs).rest
  /\ spc' = "release"
  /\ UNCHANGED <<jprio, jcount, jcond, apc, aprio, jran>>
  /\ UNCHANGED <<engineVars, queueVars, threadVars, drainVars, pipeVars, poolVars, killVars, yieldVars,
               syncVars>>

\* self.condition.release()
Server_release ==
  /\ spc = "release"
  /\ jcond' = "free"
  /\ spc' = "exec"
  /\ UNCHANGED <<jobs, jprio, jcount, apc, aprio, jcur, jran>>
  /\ UNCHANGED <<engineVars, queueVars, threadVars, drainVars, pipeVars, poolVars, killVars, yieldVars,
               syncVars>>

\* job()
Server_exec ==
  /\ spc = "exec"
  /\ jran' = Append(jran, jcur)
  /\ spc' = "top"
  /\ UNCHANGED <<jobs, jprio, jcount, jcond, apc, aprio, jcur>>
  /\ UNCHANGED <<engineVars, queueVars, threadVars, drainVars, pipeVars, poolVars, killVars, yieldVars,
               syncVars>>

\* =========================================================== specifications
vars == <<engineVars, queueVars, threadVars, jobVars, drainVars, pipeVars, poolVars, killVars, yieldVars,
               syncVars>>

\* what a decorated generator can yield before its value, and the values
YieldValues == {"v1", "v2"}
YieldPlans ==
  UNION {{pre \o <<v>> : pre \in [1..n -> {"C", "CB"}], v \in YieldValues} :
         n \in 0..MaxYields}

YieldInit ==
  /\ yplan = <<>>
  /\ yentered = 0
  /\ yfires = 0
  /\ yret = "none"
  /\ ytimer = "none"
  /\ ywait = FALSE
  /\ yconn = FALSE
  /\ ycalls = <<>>
  /\ ydone = "no"

\* what a lazily created lock is attached to: an object given to
\* synchronized(obj), or the data store of a decorated function
SyncKeys == {"object", "function"}

SyncInit ==
  /\ slockattr = [k \in SyncKeys |-> 0]
  /\ nlocks = 0
  /\ sowner = [l \in 1..(2 * Cardinality(SyncKeys)) |-> "free"]
  /\ sypc = [w \in Workers |-> "idle"]
  /\ skey = [w \in Workers |-> "object"]
  /\ slock = [w \in Workers |-> 0]

\* the pool names
Pools == {"p1", "p2"}

KillInit ==
  /\ stopped = [p \in Pools |-> FALSE]
  /\ ppc = [p \in Pools |-> "none"]
  /\ pcond = [p \in Pools |-> "free"]
  /\ pwoken = [p \in Pools |-> FALSE]
  /\ pjobs = [p \in Pools |-> 0]
  /\ padded = 0
  /\ kpc = "idle"
  /\ kleft = {}
  /\ kcur = "p1"

\* the job servers one pool name can get: one per submitting thread
ServerIds == 1..Cardinality(Workers)

PoolInit ==
  /\ _threads = 0
  /\ nservers = 0
  /\ sjobs = [p \in ServerIds |-> <<>>]
  /\ cpc = [w \in Workers |-> "idle"]
  /\ cserver = [w \in Workers |-> 0]
  /\ cjob = [w \in Workers |-> 0]
  /\ njobs = 0

Init ==
  /\ EngineInit /\ QueueInit /\ ThreadInit /\ JobInit /\ DrainInit /\ PipeInit
  /\ PoolInit /\ KillInit /\ YieldInit /\ SyncInit

\* The coroutine engine, for any policy of the decorator.
Next ==
  \/ Invoke
  \/ \E t \in TaskIds : TimerFire(t)
  \/ \E p \in Plain : Settle(p)
  \/ \E t \in TaskIds : Stop(t)
  \/ \E t \in TaskIds : Connect(t)
Spec == Init /\ [][Next]_vars

\* The engine under one policy.
InitSynchronized == Init /\ policy = POLICY_SYNCHRONIZED
SpecSynchronized == InitSynchronized /\ [][Next]_vars
InitSingleton == Init /\ policy = POLICY_SINGLETON
SpecSingleton == InitSingleton /\ [][Next]_vars
InitPassLast == Init /\ policy = POLICY_PASS_LAST
SpecPassLast == InitPassLast /\ [][Next]_vars
\* The engine under the two policies that keep the 'last' list.
InitLast == Init /\ policy \in {POLICY_SINGLETON, POLICY_PASS_LAST}
SpecLast == InitLast /\ [][Next]_vars

\* the decorator without a policy; also the start of the specifications that
\* are not about the coroutine engine
InitNone == Init /\ policy = POLICY_NONE

\* The engine without a policy, with timeout() calls on the tasks; the tasks
\* are stopped by the expiry of a timeout only.
NextTimeout ==
  \/ Invoke
  \/ \E t \in TaskIds : TimerFire(t)
  \/ \E p \in Plain : Settle(p)
  \/ \E t \in TaskIds : Connect(t)
  \/ \E t \in TaskIds : Timeout(t)
  \/ \E t \in TaskIds : Expire(t)
SpecTimeout == InitNone /\ [][NextTimeout]_vars

\* A one-shot thread, one other worker thread and the main thread.
NextThread ==
  \/ Thread_create
  \/ Thread_connect
  \/ Thread_run
  \/ Thread_acquire
  \/ Thread_append
  \/ Thread_write
  \/ Thread_release
  \/ Thread_exit
  \/ Drain_pop_thread
  \/ Emit_join
  \/ Emit_user
  \/ Emit_end
  \/ Enqueue_call("w1")
  \/ Enqueue_acquire("w1")
  \/ Enqueue_append("w1")
  \/ Enqueue_write("w1")
  \/ Enqueue_release("w1")
  \/ Pipe_create
  \/ Pipe_kick
  \/ Drain_read
  \/ Drain_acquire
  \/ Drain_pop
  \/ Drain_reraise
  \/ Drain_release
\* The threads are scheduled: a thread that can take a step takes one.
FairThread ==
  /\ WF_vars(Thread_exit)
  /\ WF_vars(Emit_join)
SpecThread == InitNone /\ [][NextThread]_vars /\ FairThread

\* ------------------------------------------------------- named job servers
\* Two threads call NamedThreadCallback objects of the same pool name.  The
\* dictionary _threads is read and written without a lock, so each statement
\* of _create_job is a step of its own.
\* job = ThreadInProgress(cb, *args, **kwargs)
Create_job_call(w) ==
  /\ cpc[w] = "idle" /\ njobs < MaxJobs
  /\ njobs' = njobs + 1
  /\ cjob' = [cjob EXCEPT ![w] = njobs + 1]
  /\ cpc' = [cpc EXCEPT ![w] = "has_key"]
  /\ UNCHANGED <<_threads, nservers, sjobs, cserver>>
  /\ UNCHANGED <<engineVars, queueVars, threadVars, jobVars, drainVars, pipeVars,
               killVars, yieldVars,
               syncVars>>

\* if not _threads.has_key(self._thread):
Create_job_has_key(w) ==
  /\ cpc[w] = "has_key"
  /\ cpc' = [cpc EXCEPT ![w] = IF _threads = 0 THEN "construct" ELSE "lookup"]
  /\ UNCHANGED <<_threads, nservers, sjobs, cserver, cjob, njobs>>
  /\ UNCHANGED <<engineVars, queueVars, threadVars, jobVars, drainVars, pipeVars,
               killVars, yieldVars,
               syncVars>>

\* _JobServer(self._thread): __init__ ends with self.start()
Create_job_construct(w) ==
  /\ cpc[w] = "construct"
  /\ nservers' = nservers + 1
  /\ cserver' = [cserver EXCEPT ![w] = nservers + 1]
  /\ cpc' = [cpc EXCEPT ![w] = "assign"]
  /\ UNCHANGED <<_threads, sjobs, cjob, njobs>>
  /\ UNCHANGED <<engineVars, queueVars, threadVars, jobVars, drainVars, pipeVars,
               killVars, yieldVars,
               syncVars>>

\* _threads[self._thread] = <the new server>
Create_job_assign(w) ==
  /\ cpc[w] = "assign"
  /\ _threads' = cserver[w]
  /\ cpc' = [cpc EXCEPT ![w] = "lookup"]
  /\ UNCHANGED <<nservers, sjobs, cserver, cjob, njobs>>
  /\ UNCHANGED <<engineVars, queueVars, threadVars, jobVars, drainVars, pipeVars,
               killVars, yieldVars,
               syncVars>>

\* server = _threads[self._thread]
Create_job_lookup(w) ==
  /\ cpc[w] = "lookup"
  /\ cserver' = [cserver EXCEPT ![w] = _threads]
  /\ cpc' = [cpc EXCEPT ![w] = "add"]
  /\ UNCHANGED <<_threads, nservers, sjobs, cjob, njobs>>
  /\ UNCHANGED <<engineVars, queueVars, threadVars, jobVars, drainVars, pipeVars,
               killVars, yieldVars,
               syncVars>>

\* server.add(job); return job
Create_job_add(w) ==
  /\ cpc[w] = "add"
  /\ sjobs' = [sjobs EXCEPT ![cserver[w]] = Append(@, cjob[w])]
  /\ cpc' = [cpc EXCEPT ![w] = "idle"]
  /\ UNCHANGED <<_threads, nservers, cserver, cjob, njobs>>
  /\ UNCHANGED <<engineVars, queueVars, threadVars, jobVars, drainVars, pipeVars,
               killVars, yieldVars,
               syncVars>>

NextPools ==
  \/ \E w \in Workers : Create_job_call(w)
  \/ \E w \in Workers : Create_job_has_key(w)
  \/ \E w \in Workers : Create_job_construct(w)
  \/ \E w \in Workers : Create_job_assign(w)
  \/ \E w \in Workers : Create_job_lookup(w)
  \/ \E w \in Workers : Create_job_add(w)
SpecPools == InitNone /\ [][NextPools]_vars

\* ------------------------------------------------- stopping the job servers
\* The main thread adds jobs to the servers of two pool names, runs drain
\* passes and calls killall, from the loop or from a callable of a drain pass
\* (which runs with _thread_notifier_lock held).  A job ends by handing its
\* result to the main thread through _thread_notifier_queue_callback.

\* faulty variant: stop() does not wake the server thread
notify_mut(w, p) == w

\* self.condition.notify(): wakes the thread waiting on the condition, if any
notify(w, p) == [w EXCEPT ![p] = (ppc[p] = "waiting")]

\* NamedThreadCallback._create_job on the main thread: the server is created
\* and started if the name has none, then server.add(job)
Pool_add(p) ==
  /\ kpc = "idle" /\ padded < MaxJobs /\ pcond[p] = "free"
  /\ padded' = padded + 1
  /\ pjobs' = [pjobs EXCEPT ![p] = @ + 1]
  /\ ppc' = [ppc EXCEPT ![p] = IF @ = "none" THEN "top" ELSE @]
  /\ pwoken' = notify(pwoken, p)
  /\ UNCHANGED <<stopped, pcond, kpc, kleft, kcur>>
  /\ UNCHANGED <<queueVars, engineVars, threadVars, jobVars, drainVars, pipeVars,
               poolVars, yieldVars,
               syncVars>>

\* _JobServer.run: while not self.stopped
Run_top(p) ==
  /\ ppc[p] = "top"
  /\ ppc' = [ppc EXCEPT ![p] = IF stopped[p] THEN "exited" ELSE "acquire"]
  /\ UNCHANGED <<stopped, pcond, pwoken, pjobs, padded, kpc, kleft, kcur>>
  /\ UNCHANGED <<queueVars, engineVars, threadVars, jobVars, drainVars, pipeVars,
               poolVars, yieldVars,
               syncVars>>

\* self.condition.acquire()
Run_acquire(p) ==
  /\ ppc[p] = "acquire" /\ pcond[p] = "free"
  /\ pcond' = [pcond EXCEPT ![p] = "server"]
  /\ ppc' = [ppc EXCEPT ![p] = "check"]
  /\ UNCHANGED <<stopped, pwoken, pjobs, padded, kpc, kleft, kcur>>
  /\ UNCHANGED <<queueVars, engineVars, threadVars, jobVars, drainVars, pipeVars,
               poolVars, yieldVars,
               syncVars>>

\* while not self.jobs and not self.stopped: self.condition.wait()
Run_wait(p) ==
  /\ ppc[p] = "check" /\ pjobs[p] = 0 /\ ~stopped[p]
  /\ pcond' = [pcond EXCEPT ![p] = "free"]
  /\ pwoken' = [pwoken EXCEPT ![p] = FALSE]
  /\ ppc' = [ppc EXCEPT ![p] = "waiting"]
  /\ UNCHANGED <<stopped, pjobs, padded, kpc, kleft, kcur>>
  /\ UNCHANGED <<queueVars, engineVars, threadVars, jobVars, drainVars, pipeVars,
               poolVars, yieldVars,
               syncVars>>

\* condition.wait() returns: the thread was notified and has the condition again
Run_wake(p) ==
  /\ ppc[p] = "waiting" /\ pwoken[p] /\ pcond[p] = "free"
  /\ pcond' = [pcond EXCEPT ![p] = "server"]
  /\ pwoken' = [pwoken EXCEPT ![p] = FALSE]
  /\ ppc' = [ppc EXCEPT ![p] = "check"]
  /\ UNCHANGED <<stopped, pjobs, padded, kpc, kleft, kcur>>
  /\ UNCHANGED <<queueVars, engineVars, threadVars, jobVars, drainVars, pipeVars,
               poolVars, yieldVars,
               syncVars>>

\* if self.stopped: self.condition.release(); continue
Run_stopped(p) ==
  /\ ppc[p] = "check" /\ stopped[p]
  /\ pcond' = [pcond EXCEPT ![p] = "free"]
  /\ ppc' = [ppc EXCEPT ![p] = "top"]
  /\ UNCHANGED <<stopped, pwoken, pjobs, padded, kpc, kleft, kcur>>
  /\ UNCHANGED <<queueVars, engineVars, threadVars, jobVars, drainVars, pipeVars,
               poolVars, yieldVars,
               syncVars>>

\* job = self.jobs.pop(0); self.condition.release()
Run_pop(p) ==
  /\ ppc[p] = "check" /\ pjobs[p] > 0 /\ ~stopped[p]
  /\ pjobs' = [pjobs EXCEPT ![p] = @ - 1]
  /\ pcond' = [pcond EXCEPT ![p] = "free"]
  /\ ppc' = [ppc EXCEPT ![p] = "exec"]
  /\ UNCHANGED <<stopped, pwoken, padded, kpc, kleft, kcur>>
  /\ UNCHANGED <<queueVars, engineVars, threadVars, jobVars, drainVars, pipeVars,
               poolVars, yieldVars,
               syncVars>>

\* job(): ThreadInProgress.__call__ runs the callable in the server thread
Run_exec(p) ==
  /\ ppc[p] = "exec"
  /\ ppc' = [ppc EXCEPT ![p] = "finish"]
  /\ UNCHANGED <<stopped, pcond, pwoken, pjobs, padded, kpc, kleft, kcur>>
  /\ UNCHANGED <<queueVars, engineVars, threadVars, jobVars, drainVars, pipeVars,
               poolVars, yieldVars,
               syncVars>>

\* MainThreadCallback(self.finish)(result): _thread_notifier_queue_callback
\* takes _thread_notifier_lock
Run_finish_acquire(p) ==
  /\ ppc[p] = "finish" /\ qlock = "free"
  /\ qlock' = p
  /\ ppc' = [ppc EXCEPT ![p] = "enqueue"]
  /\ UNCHANGED <<stopped, pcond, pwoken, pjobs, padded, kpc, kleft, kcur>>
  /\ UNCHANGED <<queue, pipe, bytes, wpc, went, mpc, issued, before, ran>>
  /\ UNCHANGED <<engineVars, threadVars, jobVars, drainVars, pipeVars, poolVars, yieldVars,
               syncVars>>

\* the entry is appended, the lock released, and run goes round its loop
Run_finish_release(p) ==
  /\ ppc[p] = "enqueue"
  /\ qlock' = "free"
  /\ ppc' = [ppc EXCEPT ![p] = "top"]
  /\ UNCHANGED <<stopped, pcond, pwoken, pjobs, padded, kpc, kleft, kcur>>
  /\ UNCHANGED <<queue, pipe, bytes, wpc, went, mpc, issued, before, ran>>
  /\ UNCHANGED <<engineVars, threadVars, jobVars, drainVars, pipeVars, poolVars, yieldVars,
               syncVars>>

\* _thread_notifier_run_queue: _thread_notifier_lock.acquire(); a callable of
\* the pass is running
Pass_enter ==
  /\ kpc = "idle" /\ qlock = "free"
  /\ qlock' = "main"
  /\ UNCHANGED killVars
  /\ UNCHANGED <<queue, pipe, bytes, wpc, went, mpc, issued, before, ran>>
  /\ UNCHANGED <<engineVars, threadVars, jobVars, drainVars, pipeVars, poolVars, yieldVars,
               syncVars>>

\* finally: _thread_notifier_lock.release()
Pass_leave ==
  /\ kpc \in {"idle", "done"} /\ qlock = "main"
  /\ qlock' = "free"
  /\ UNCHANGED killVars
  /\ UNCHANGED <<queue, pipe, bytes, wpc, went, mpc, issued, before, ran>>
  /\ UNCHANGED <<engineVars, threadVars, jobVars, drainVars, pipeVars, poolVars, yieldVars,
               syncVars>>

\* killall(): for j in _threads.values()
Killall_call ==
  /\ kpc = "idle"
  /\ kleft' = {p \in Pools : ppc[p] # "none"}
  /\ kpc' = IF kleft' = {} THEN "done" ELSE "next"
  /\ UNCHANGED <<stopped, ppc, pcond, pwoken, pjobs, padded, kcur>>
  /\ UNCHANGED <<queueVars, engineVars, threadVars, jobVars, drainVars, pipeVars,
               poolVars, yieldVars,
               syncVars>>

\* j.stop(): self.condition.acquire()
Killall_stop_acquire(p) ==
  /\ kpc = "next" /\ p \in kleft /\ pcond[p] = "free"
  /\ kcur' = p
  /\ pcond' = [pcond EXCEPT ![p] = "main"]
  /\ kpc' = "stop"
  /\ UNCHANGED <<stopped, ppc, pwoken, pjobs, padded, kleft>>
  /\ UNCHANGED <<queueVars, engineVars, threadVars, jobVars, drainVars, pipeVars,
               poolVars, yieldVars,
               syncVars>>

\* self.stopped = True; self.condition.notify(); self.condition.release()
Killall_stop ==
  /\ kpc = "stop"
  /\ stopped' = [stopped EXCEPT ![kcur] = TRUE]
  /\ pwoken' = notify(pwoken, kcur)
  /\ pcond' = [pcond EXCEPT ![kcur] = "free"]
  /\ kpc' = "join"
  /\ UNCHANGED <<ppc, pjobs, padded, kleft, kcur>>
  /\ UNCHANGED <<queueVars, engineVars, threadVars, jobVars, drainVars, pipeVars,
               poolVars, yieldVars,
               syncVars>>

\* faulty variant: join returns while the thread is still running
join_mut(p) == TRUE

\* threading.Thread.join: returns once the thread has ended
join(p) == ppc[p] = "exited"

\* j.join() returns when the server thread has exited
Killall_join ==
  /\ kpc = "join" /\ join(kcur)
  /\ kleft' = kleft \ {kcur}
  /\ kpc' = IF kleft' = {} THEN "done" ELSE "next"
  /\ UNCHANGED <<stopped, ppc, pcond, pwoken, pjobs, padded, kcur>>
  /\ UNCHANGED <<queueVars, engineVars, threadVars, jobVars, drainVars, pipeVars,
               poolVars, yieldVars,
               syncVars>>

NextKill ==
  \/ \E p \in Pools : Pool_add(p)
  \/ \E p \in Pools : Run_top(p)
  \/ \E p \in Pools : Run_acquire(p)
  \/ \E p \in Pools : Run_wait(p)
  \/ \E p \in Pools : Run_wake(p)
  \/ \E p \in Pools : Run_stopped(p)
  \/ \E p \in Pools : Run_pop(p)
  \/ \E p \in Pools : Run_exec(p)
  \/ \E p \in Pools : Run_finish_acquire(p)
  \/ \E p \in Pools : Run_finish_release(p)
  \/ Pass_enter
  \/ Pass_leave
  \/ Killall_call
  \/ \E p \in Pools : Killall_stop_acquire(p)
  \/ Killall_stop
  \/ Killall_join

\* Every thread that can take a step eventually takes one; the main thread
\* need not add jobs, start a drain pass or call killall.
FairKill ==
  /\ \A p \in Pools :
       WF_vars(\/ Run_top(p) \/ Run_acquire(p) \/ Run_wait(p) \/ Run_wake(p)
               \/ Run_stopped(p) \/ Run_pop(p) \/ Run_exec(p)
               \/ Run_finish_acquire(p) \/ Run_finish_release(p))
  /\ WF_vars(\/ (\E p \in Pools : Killall_stop_acquire(p)) \/ Killall_stop
             \/ Killall_join \/ Pass_leave)
SpecKill == InitNone /\ [][NextKill]_vars /\ FairKill

\* ----------------------------------------------------------- yield_execution
\* faulty variant: the callback is called although none is connected, and
\* twice when one is
deliver_mut(calls, connected, v) ==
  IF connected THEN Append(Append(calls, v), v) ELSE Append(calls, v)

\* InProgress.__call__: if self._callback: the connected callback gets the value
deliver(calls, connected, v) == IF connected THEN Append(calls, v) ELSE calls

\* the timer after its callback returned: a true value reschedules it
Timer_reschedule(ret) == IF ret THEN "active" ELSE "stopped"

\* newfunc: function = func(*args, **kwargs).next; result = function(); a
\* plain result is returned, otherwise a YieldFunction is constructed and
\* returned, whose timer is started (YieldContinue) or handed to the
\* YieldCallback
Yield_call ==
  /\ yplan = <<>>
  /\ \E plan \in YieldPlans :
       /\ yplan' = plan
       /\ yentered' = 1
       /\ IF plan[1] \in YieldValues
            THEN yret' = plan[1] /\ ytimer' = "none" /\ ywait' = FALSE
            ELSE /\ yret' = "InProgress"
                 /\ ytimer' = IF plan[1] = "C" THEN "active" ELSE "stopped"
                 /\ ywait' = (plan[1] = "CB")
  /\ UNCHANGED <<yfires, yconn, ycalls, ydone>>
  /\ UNCHANGED <<engineVars, queueVars, threadVars, jobVars, drainVars, pipeVars,
               poolVars, killVars, syncVars>>

\* InProgress.connect, called by the caller on the returned object
Yield_connect ==
  /\ yret = "InProgress" /\ ~yconn
  /\ yconn' = TRUE
  /\ UNCHANGED <<yplan, yentered, yfires, yret, ytimer, ywait, ycalls, ydone>>
  /\ UNCHANGED <<engineVars, queueVars, threadVars, jobVars, drainVars, pipeVars,
               poolVars, killVars, syncVars>>

\* YieldCallback.__call__: the awaited result arrives, self._timer.start
Yield_callback_result ==
  /\ ywait
  /\ ywait' = FALSE
  /\ ytimer' = "active"
  /\ UNCHANGED <<yplan, yentered, yfires, yret, yconn, ycalls, ydone>>
  /\ UNCHANGED <<engineVars, queueVars, threadVars, jobVars, drainVars, pipeVars,
               poolVars, killVars, syncVars>>

\* The timer fires: YieldFunction.step
Yield_timer_fire ==
  /\ ytimer = "active"
  /\ yfires' = yfires + 1
  /\ yentered' = yentered + 1
  /\ LET yielded == yplan[yentered + 1] IN
       IF yielded = "C"
         THEN /\ ytimer' = Timer_reschedule(TRUE)
              /\ UNCHANGED <<ywait, ycalls, ydone>>
         ELSE IF yielded = "CB"
           THEN /\ ytimer' = Timer_reschedule(FALSE)
                /\ ywait' = TRUE
                /\ UNCHANGED <<ycalls, ydone>>
           ELSE /\ ytimer' = "released"
                /\ ycalls' = deliver(ycalls, yconn, yielded)
                /\ ydone' = IF yconn THEN "with" ELSE "without"
                /\ UNCHANGED ywait
  /\ UNCHANGED <<yplan, yret, yconn>>
  /\ UNCHANGED <<engineVars, queueVars, threadVars, jobVars, drainVars, pipeVars,
               poolVars, killVars, syncVars>>

NextYield ==
  \/ Yield_call
  \/ Yield_connect
  \/ Yield_callback_result
  \/ Yield_timer_fire
SpecYield == InitNone /\ [][NextYield]_vars

\* -------------------------------------------------------------- synchronized
\* Two threads run `with synchronized(obj):` on one object, or call one
\* function decorated with synchronized().  Nothing guards the creation of the
\* lock, so each statement is a step of its own.

\* synchronized(obj) is constructed, or the decorated function is called
Sync_call(w) ==
  /\ sypc[w] = "idle"
  /\ \E k \in SyncKeys : skey' = [skey EXCEPT ![w] = k]
  /\ slock' = [slock EXCEPT ![w] = 0]
  /\ sypc' = [sypc EXCEPT ![w] = "test"]
  /\ UNCHANGED <<slockattr, nlocks, sowner>>
  /\ UNCHANGED <<engineVars, queueVars, threadVars, jobVars, drainVars, pipeVars,
               poolVars, killVars, yieldVars>>

\* if not hasattr(obj, '_kaa_synchronized_lock') /
\* if 'synchronized_lock' not in store
Sync_test(w) ==
  /\ sypc[w] = "test"
  /\ sypc' = [sypc EXCEPT ![w] = IF slockattr[skey[w]] = 0 THEN "create" ELSE "read"]
  /\ UNCHANGED <<slockattr, nlocks, sowner, skey, slock>>
  /\ UNCHANGED <<engineVars, queueVars, threadVars, jobVars, drainVars, pipeVars,
               poolVars, killVars, yieldVars>>

\* obj._kaa_synchronized_lock = threading.RLock() /
\* store.synchronized_lock = threading.RLock()
Sync_create(w) ==
  /\ sypc[w] = "create"
  /\ nlocks' = nlocks + 1
  /\ slockattr' = [slockattr EXCEPT ![skey[w]] = nlocks + 1]
  /\ sypc' = [sypc EXCEPT ![w] = "read"]
  /\ UNCHANGED <<sowner, skey, slock>>
  /\ UNCHANGED <<engineVars, queueVars, threadVars, jobVars, drainVars, pipeVars,
               poolVars, killVars, yieldVars>>

\* self._lock = obj._kaa_synchronized_lock / lock = store.synchronized_lock
Sync_read(w) ==
  /\ sypc[w] = "read"
  /\ slock' = [slock EXCEPT ![w] = slockattr[skey[w]]]
  /\ sypc' = [sypc EXCEPT ![w] = "acquire"]
  /\ UNCHANGED <<slockattr, nlocks, sowner, skey>>
  /\ UNCHANGED <<engineVars, queueVars, threadVars, jobVars, drainVars, pipeVars,
               poolVars, killVars, yieldVars>>

\* __enter__: self._lock.acquire() / call: lock.acquire(); the body follows
Sync_acquire(w) ==
  /\ sypc[w] = "acquire" /\ sowner[slock[w]] = "free"
  /\ sowner' = [sowner EXCEPT ![slock[w]] = w]
  /\ sypc' = [sypc EXCEPT ![w] = "body"]
  /\ UNCHANGED <<slockattr, nlocks, skey, slock>>
  /\ UNCHANGED <<engineVars, queueVars, threadVars, jobVars, drainVars, pipeVars,
               poolVars, killVars, yieldVars>>

\* the body ends; __exit__: self._lock.release() / finally: lock.release()
Sync_release(w) ==
  /\ sypc[w] = "body"
  /\ sowner' = [sowner EXCEPT ![slock[w]] = "free"]
  /\ sypc' = [sypc EXCEPT ![w] = "idle"]
  /\ UNCHANGED <<slockattr, nlocks, skey, slock>>
  /\ UNCHANGED <<engineVars, queueVars, threadVars, jobVars, drainVars, pipeVars,
               poolVars, killVars, yieldVars>>

NextSync ==
  \/ \E w \in Workers : Sync_call(w)
  \/ \E w \in Workers : Sync_test(w)
  \/ \E w \in Workers : Sync_create(w)
  \/ \E w \in Workers : Sync_read(w)
  \/ \E w \in Workers : Sync_acquire(w)
  \/ \E w \in Workers : Sync_release(w)
SpecSync == InitNone /\ [][NextSync]_vars

\* A job server and two threads that add jobs to it.
NextJobs ==
  \/ \E w \in Workers : Job_add_call(w)
  \/ \E w \in Workers : Job_add_acquire(w)
  \/ \E w \in Workers : Job_add_append(w)
  \/ \E w \in Workers : Job_add_release(w)
  \/ Server_acquire
  \/ Server_wait
  \/ Server_wake
  \/ Server_pop
  \/ Server_release
  \/ Server_exec
SpecJobs == InitNone /\ [][NextJobs]_vars

\* The wake queue: worker threads and the main thread, interleaved.
NextQueue ==
  \/ \E w \in Workers : Enqueue_call(w)
  \/ \E w \in Workers : Enqueue_acquire(w)
  \/ \E w \in Workers : Enqueue_append(w)
  \/ \E w \in Workers : Enqueue_write(w)
  \/ \E w \in Workers : Enqueue_release(w)
  \/ Pipe_create
  \/ Pipe_kick
  \/ Drain_read
  \/ Drain_acquire
  \/ Drain_pop
  \/ Drain_reraise
  \/ Drain_release
SpecQueue == InitNone /\ [][NextQueue]_vars

\* The same threads, and a main thread that also recreates the pipe, with or
\* without purge.
NextPipe ==
  \/ \E w \in Workers : Enqueue_call(w)
  \/ \E w \in Workers : Enqueue_acquire(w)
  \/ \E w \in Workers : Enqueue_append(w)
  \/ \E w \in Workers : Enqueue_write(w)
  \/ \E w \in Workers : Enqueue_release(w)
  \/ Pipe_create
  \/ Pipe_recreate
  \/ Pipe_purge_acquire
  \/ Pipe_purge
  \/ Pipe_install
  \/ Pipe_kick
  \/ Drain_read
  \/ Drain_acquire
  \/ Drain_pop
  \/ Drain_reraise
  \/ Drain_release
SpecPipe == InitNone /\ [][NextPipe]_vars

\* Step functions and queued callables that raise KeyboardInterrupt: the
\* coroutines run on the main loop, one worker thread enqueues callables.
\* The main loop, not inside a drain pass, calls the decorated function or a
\* step timer's callback.
Loop_Invoke == mpc = "loop" /\ Invoke
Loop_TimerFire(t) == mpc = "loop" /\ TimerFire(t)

InitFatal ==
  /\ EngineStart(TRUE) /\ policy = POLICY_NONE
  /\ QueueInit /\ ThreadInit /\ JobInit /\ DrainInit /\ PipeInit /\ PoolInit
  /\ KillInit /\ YieldInit /\ SyncInit
NextFatal ==
  \/ Loop_Invoke
  \/ \E t \in TaskIds : Loop_TimerFire(t)
  \/ Enqueue_call("w1")
  \/ Enqueue_acquire("w1")
  \/ Enqueue_append("w1")
  \/ Enqueue_write("w1")
  \/ Enqueue_release("w1")
  \/ Pipe_create
  \/ Pipe_kick
  \/ Drain_read
  \/ Drain_acquire
  \/ Drain_pop
  \/ Drain_reraise
  \/ Drain_release
SpecFatal == InitFatal /\ [][NextFatal]_vars

\* ==================================================================== claims
\* A task is alive from its construction until it is stopped or terminates:
\* stop() tests self._coroutine for that.
alive(t) == coroutine[t]

\* The task's timer is armed: its next advance is one main-loop hop away.
Running(t) == timer[t] = "active"

\* The task waits for a pending promise: its prerequisite, or, for a locked
\* task that was never advanced, the holder of the lock.
BlockedOnPromise(t) ==
  /\ timer[t] = "idle"
  /\ \/ /\ prereq[t] # NoIP
        /\ st[prereq[t]] = "Pending"
        /\ InSeq(<<"continue", t>>, fobs[prereq[t]])
     \/ /\ locked[t] /\ adv[t] = 0 /\ lock # NoIP
        /\ st[lock] = "Pending"
        /\ InSeq(<<"try_again", t>>, fobs[lock])

NonTerminal(t) == Running(t) \/ BlockedOnPromise(t)

\* C1: whenever stop() was called on a non-terminal task, the task's promise
\* is Failed with GeneratorExit afterwards, whatever observers it had.
C1_StopFailsPromise ==
  \A t \in TaskIds :
    cancelledOn[t] # <<>> => st[t] = "Failed" /\ exc[t] = "GeneratorExit"

C3_NoWaitOnTerminatedHolder ==
  policy = POLICY_SYNCHRONIZED =>
    \A w \in TaskIds :
      locked[w] /\ alive(w) /\ adv[w] = 0 /\ timer[w] = "idle"
        => lock # NoIP /\ alive(lock)

\* C4: under POLICY_SINGLETON, while a task is alive, an invocation returns
\* that task, changes nothing else (no task is created, no generator is
\* resumed), and cannot enter the step function.
C4_SingletonIdentity ==
  policy = POLICY_SINGLETON =>
    \A t \in TaskIds :
      alive(t) =>
        /\ LET r == newfunc(Cur, <<>>)
           IN r.ok /\ r.ret = t /\ r.s = [Cur EXCEPT !.reused = TRUE]
        /\ \A ds \in NewSeqs(Cur) : ds # <<>> => ~newfunc(Cur, ds).ok

\* C4 witness: a second invocation returned the one live task.
C4_Witness ==
  policy = POLICY_SINGLETON /\ reused /\ ntasks = 1 /\ alive(1) /\ adv[1] = 1

\* C5: under POLICY_SINGLETON and POLICY_PASS_LAST the last list holds live
\* tasks only, no observer of the caller ever ran while its task was still in
\* last, and with no live task the next Singleton invocation creates a task
\* and enters the step function.
C5_RemovedOnTerminal ==
  policy \in {POLICY_SINGLETON, POLICY_PASS_LAST} =>
    /\ \A t \in TaskIds : InSeq(t, last) => alive(t) /\ st[t] = "Pending"
    /\ ~sawLast
    /\ (policy = POLICY_SINGLETON /\ ntasks < MaxTasks
        /\ DirSeqs(Cur, ntasks + 1) # {}
        /\ \A t \in TaskIds : ~alive(t))
         => /\ ~newfunc(Cur, <<>>).ok
            /\ \A ds \in DirSeqs(Cur, ntasks + 1) :
                 LET r == newfunc(Cur, ds)
                 IN r.ok /\ r.ret = ntasks + 1 /\ r.s.ntasks = ntasks + 1
                    /\ r.s.adv[ntasks + 1] >= 1

\* C5 witness: a Singleton task was cancelled, the caller's observer heard of
\* it, and the next invocation created a second task.
C5_Witness ==
  /\ policy = POLICY_SINGLETON /\ ntasks = 2
  /\ cancelledOn[1] # <<>> /\ notified[1] = 1 /\ adv[2] >= 1

\* the most recently created task that is alive, or None
MostRecentLive ==
  LET L == {t \in TaskIds : alive(t)}
  IN IF L = {} THEN NoIP ELSE CHOOSE t \in L : \A u \in L : u <= t

C7_LiveEqualsNonTerminal ==
  active_coroutines = {t \in TaskIds : NonTerminal(t)}

\* C7 witness: one task is blocked and in the set while another one, which
\* was cancelled, has left it.
C7_Witness ==
  \E t, u \in TaskIds :
    /\ t \in active_coroutines /\ BlockedOnPromise(t)
    /\ u \notin active_coroutines /\ cancelledOn[u] # <<>>

\* C8: for every task in every state, a second stop() changes nothing that
\* the first one left (promise, observers' notifications, LIVE, timer, driver
\* closes, prerequisite) and raises no error.
C8_StopIdempotent ==
  \A t \in 1..ntasks :
    LET s1 == stop(Cur, t)
    IN stop(s1, t) = s1 /\ ~s1.failure /\ ~stop(s1, t).failure

\* C8 witness: stop() was called again on a task that a first stop() had
\* cancelled and whose observer had been notified.
C8_Witness ==
  /\ restopped
  /\ \E t \in TaskIds :
       cancelledOn[t] # <<>> /\ closed[t] = 1 /\ notified[t] = 1

\* C9: the callables run in the order of their enqueue calls: when an entry
\* runs, every entry whose enqueue had returned before its own enqueue began
\* has run before it.
C9_FifoOrder ==
  \A k \in 1..Len(ran) : before[ran[k]] \subseteq {ran[j] : j \in 1..(k - 1)}

\* C9 witness: two entries enqueued one after the other have run in that
\* order, and a drain pass is under way with a further entry queued.
C9_Witness ==
  /\ Len(ran) >= 2 /\ ran[1] \in before[ran[2]]
  /\ mpc = "drain" /\ queue # <<>>

\* C10: when stop() cancels a task blocked on the pending plain promise, the
\* generator is closed, the plain promise stays Pending and the timer is
\* released; from then on the generator is never resumed and the timer never
\* started again, also when the plain promise is settled later.
C10_CancelDuringAwait ==
  [][\A t \in TaskIds :
       /\ (cancelledOn[t] = <<>> /\ cancelledOn'[t] = <<0, "Pending">>)
            => closed'[t] = 1 /\ st'[0] = "Pending" /\ timer'[t] = "none"
       /\ cancelledOn[t] # <<>>
            => adv'[t] = adv[t] /\ timer'[t] = "none" /\ closed'[t] = closed[t]
    ]_vars

\* C10 witness: the plain promise was settled after the task that awaited it
\* had been cancelled.
C10_Witness ==
  \E t \in TaskIds :
    cancelledOn[t] = <<0, "Pending">> /\ st[0] # "Pending" /\ adv[t] >= 1

\* C11: every resumption of a generator injects the outcome of the promise
\* the generator yielded before: nothing at the first resumption and after
\* NotFinished, the result of a finished promise, the exception of a failed
\* one (whose failure is marked handled then); a step function that returns
\* the value it was sent plus one finishes with that value.
C11_InjectsOutcome ==
  /\ ~misinjected
  /\ \A t \in TaskIds :
       st[t] = "Finished" =>
         result[t] = IF awaited[t] # NoIP /\ st[awaited[t]] = "Finished"
                     THEN result[awaited[t]] + 1 ELSE DoneValue

\* C11 witness: an outer task awaited an inner task that finished with 7 and
\* finished with 8.
C11_Witness ==
  \E t, u \in TaskIds :
    /\ st[t] = "Finished" /\ awaited[t] = u
    /\ result[u] = DoneValue /\ result[t] = DoneValue + 1

\* C12: a task that was advanced eagerly at construction and whose generator
\* yielded NotFinished n times and then its value is finished with that value
\* after exactly n firings of its timer; while all its yields are NotFinished,
\* its timer fired once for each of them but the latest.
C12_OneHopPerContinue ==
  \A t \in TaskIds :
    ~locked[t] =>
      /\ (st[t] = "Finished" /\ conts[t] = adv[t] - 1)
           => fires[t] = conts[t] /\ result[t] = DoneValue
      /\ (adv[t] >= 1 /\ conts[t] = adv[t]) => fires[t] = conts[t] - 1

\* C12 witness: NotFinished twice, then the value: two firings.
C12_Witness ==
  \E t \in TaskIds :
    ~locked[t] /\ st[t] = "Finished" /\ adv[t] = 3 /\ conts[t] = 2 /\ fires[t] = 2

Joining == mpc = "emit" /\ tpend # <<>> /\ Head(tpend) = "join"

C16_HighestPriorityFirst ==
  [][jcur' # jcur =>
       \A k \in 1..Len(jobs) :
         \/ jprio[jobs[k]] < jprio[jcur']
         \/ jprio[jobs[k]] = jprio[jcur'] /\ jcur' <= jobs[k]
    ]_vars

\* C16 witness: a job of higher priority that was added later ran first, and
\* of two jobs of equal priority the one added first.
C16_Witness ==
  /\ Len(jran) = 3
  /\ \E a, b \in 1..3 :
       a < b /\ jran[a] > jran[b] /\ jprio[jran[a]] > jprio[jran[b]]
  /\ \E a, b \in 1..3 :
       a < b /\ jran[a] < jran[b] /\ jprio[jran[a]] = jprio[jran[b]]

\* the error the generator of task t raises at the last directive of ds: the
\* error of the promise it yielded last, thrown into it and not caught, or an
\* error of its own
RaisedBy(ds, t) ==
  LET n == Len(ds)
      a == IF n > 1 THEN ds[n - 1][2] ELSE awaited[t]
      e == Expected(Cur, a)
  IN IF e[1] = "throw" THEN e[2] ELSE "Error"

\* task t of engine state s failed with error e and was stopped
FailedWith(s, t, e) ==
  /\ s.st[t] = "Failed" /\ s.exc[t] = e
  /\ t \notin s.active_coroutines
  /\ s.timer[t] = "none"
  /\ ~s.coroutine[t] /\ s.closed[t] >= 1

\* C17: when the generator raises an error in an advance, the eager one of
\* newfunc or one made by the timer, the task is Failed with that very error,
\* out of _active_coroutines, without timer and without generator; and every
\* failed task is in that condition.
C17_RaisedSettlesFailed ==
  /\ \A t \in 1..ntasks :
       timer[t] = "active" =>
         \A ds \in DirSeqs(Cur, t) :
           LET r == _step(Cur, t, ds)
           IN (r.ok /\ ds[Len(ds)][1] = "raise") =>
                ~r.ret /\ FailedWith(r.s, t, RaisedBy(ds, t))
  /\ (ntasks < MaxTasks /\ ~(policy = POLICY_SINGLETON /\ last # <<>>)
        /\ ~lock_held(Cur)) =>
       \A ds \in DirSeqs(Cur, ntasks + 1) :
         LET r == newfunc(Cur, ds)
         IN (r.ok /\ ds[Len(ds)][1] = "raise") =>
              r.ret = ntasks + 1 /\ FailedWith(r.s, ntasks + 1, RaisedBy(ds, ntasks + 1))
  /\ \A t \in TaskIds : st[t] = "Failed" => FailedWith(Cur, t, exc[t])

\* C17 witness: one task failed with the generator's error in an advance made
\* by its timer, another in its eager advance.
C17_Witness ==
  \E t, u \in TaskIds :
    /\ t # u
    /\ st[t] = "Failed" /\ exc[t] = "Error" /\ fires[t] >= 1 /\ adv[t] = fires[t] + 1
    /\ st[u] = "Failed" /\ exc[u] = "Error" /\ ~locked[u] /\ adv[u] = 1 /\ fires[u] = 0

\* the tasks created so far, from task t on, that are not terminal, in
\* creation order
RECURSIVE NonTerminalFrom(_)
NonTerminalFrom(t) ==
  IF t > ntasks THEN <<>>
  ELSE (IF NonTerminal(t) THEN <<t>> ELSE <<>>) \o NonTerminalFrom(t + 1)

\* C18 as stated: under POLICY_SYNCHRONIZED and POLICY_PASS_LAST the list
\* last holds exactly the non-terminal tasks, in creation order.
C18_LastOfSynchronized ==
  policy \in {POLICY_SYNCHRONIZED, POLICY_PASS_LAST} =>
    last = NonTerminalFrom(1)

\* C18: under POLICY_SINGLETON and POLICY_PASS_LAST the list last holds
\* exactly the non-terminal tasks, in creation order: a task is appended when
\* newfunc returns it unfinished and removed when it finishes, fails or is
\* stopped.  Under the other policies nothing is ever put in last.
C18_LastHoldsNonTerminal ==
  /\ policy \in {POLICY_SINGLETON, POLICY_PASS_LAST} =>
       /\ last = NonTerminalFrom(1)
       /\ \A t \in 1..ntasks : NonTerminal(t) <=> st[t] = "Pending"
  /\ policy \notin {POLICY_SINGLETON, POLICY_PASS_LAST} => last = <<>>

\* C18 witness: the first task was in last and has been removed on its
\* termination; the second, created while the first was in last, is still there.
C18_Witness ==
  /\ policy = POLICY_PASS_LAST /\ ntasks = 2
  /\ lastArg[2] = 1 /\ st[1] # "Pending"
  /\ last = <<2>> /\ NonTerminal(2)

\* stop() acts in this step on task t, which is blocked on the pending task p
CancelledWhileBlockedOn(t, p) ==
  /\ coroutine[t] /\ prereq[t] = p
  /\ coroutine[p] /\ st[p] = "Pending"
  /\ cancelledOn'[t] # cancelledOn[t]

\* C19: when a task t blocked on a task p is stopped, then after the step p's
\* generator is closed, p is out of _active_coroutines and Failed with
\* GeneratorExit, and t was neither advanced nor was its timer started.
C19_CancelPropagates ==
  [][\A t, p \in TaskIds :
       CancelledWhileBlockedOn(t, p) =>
         /\ closed'[p] >= 1 /\ ~coroutine'[p]
         /\ p \notin active_coroutines'
         /\ st'[p] = "Failed" /\ exc'[p] = "GeneratorExit"
         /\ adv'[t] = adv[t] /\ timer'[t] = "none"
    ]_vars

\* task t waits for the pending promise p: _continue is connected to it
BlockedOn(t, p) ==
  /\ coroutine[t] /\ prereq[t] = p /\ st[p] = "Pending"
  /\ InSeq(<<"continue", t>>, fobs[p]) /\ InSeq(<<"continue", t>>, eobs[p])

\* C20: a task that waits for a pending promise has no active timer; in the
\* step in which the promise is settled the task's generator is not resumed
\* and its timer is started; a generator that was resumed before is resumed
\* again only by a firing of the timer, and after the firing the timer is
\* active only if the generator yielded NotFinished.
C20_NotifiedStartsTimer ==
  [][\A t \in TaskIds :
       /\ \A p \in Ids :
            BlockedOn(t, p) =>
              /\ timer[t] = "idle"
              /\ (st'[p] # "Pending" /\ coroutine'[t]) =>
                   /\ adv'[t] = adv[t] /\ fires'[t] = fires[t]
                   /\ timer'[t] = "active"
       /\ (adv[t] >= 1 /\ adv'[t] # adv[t]) =>
            timer[t] = "active" /\ fires'[t] = fires[t] + 1
       /\ fires'[t] # fires[t] =>
            /\ fires'[t] = fires[t] + 1 /\ adv'[t] > adv[t]
            /\ timer'[t] = "active" <=> conts'[t] = conts[t] + 1
    ]_vars

\* C20 witness: a task that waited for the plain promise was resumed once
\* after the promise was settled, by the one firing of its timer.
C20_Witness ==
  \E t \in TaskIds :
    /\ ~locked[t] /\ conts[t] = 0 /\ awaited[t] = 0 /\ st[0] # "Pending"
    /\ adv[t] = 2 /\ fires[t] = 1 /\ st[t] = "Finished"

\* every directive a generator can yield to task t
AllDirs(s, t) ==
  {<<"done", NoIP>>, <<"raise", NoIP>>, <<"cont", NoIP>>} \cup
  {<<"await", i>> : i \in Targets(s, t)}

\* the outcome r of one _step call of task t that obtained the directives ds,
\* which end the call: one resumption per directive, no observer left on a
\* promise that was finished when yielded, every resumption injected the
\* outcome of the promise yielded before it
InlineOutcome(r, t, ds) ==
  /\ r.ok
  /\ r.s.adv[t] = adv[t] + Len(ds)
  /\ r.s.misinjected = misinjected
  /\ \A k \in 1..(Len(ds) - 1) :
       LET p == ds[k][2]
       IN /\ ~InSeq(<<"continue", t>>, r.s.fobs[p])
          /\ ~InSeq(<<"continue", t>>, r.s.eobs[p])

\* coroutines decorated without policy
SpecNone == InitNone /\ [][Next]_vars

\* C21 for one _step call of task t in the present state, timer the state of
\* its timer before the call: the call goes through every InProgress that is
\* finished when yielded and ends at the first other directive, neither
\* earlier nor later, and does not touch the timer unless the task ends.
StepsInline(t, timer0) ==
  LET s == [Cur EXCEPT !.timer[t] = timer0] IN
  /\ \A ds \in DirSeqs(Cur, t) :
       LET r == _step(s, t, ds)
       IN /\ InlineOutcome(r, t, ds)
          /\ r.ret <=> ds[Len(ds)][1] = "cont"
          /\ r.s.timer[t] \in {timer0, "none"}
          /\ r.s.timer[t] = "none" <=> ds[Len(ds)][1] \in {"done", "raise"}
          /\ Len(ds) >= 2 => ~_step(s, t, SubSeq(ds, 1, Len(ds) - 1)).ok
          /\ \A x \in AllDirs(Cur, t) : ~_step(s, t, Append(ds, x)).ok

\* C21: in one _step call, made by newfunc or by the timer, a generator that
\* yields an InProgress that is finished already is resumed again at once
\* with its outcome, with no observer connected and the timer not started,
\* until it yields NotFinished or an unfinished InProgress, returns or raises.
C21_FinishedAwaitInline ==
  /\ \A t \in 1..ntasks : timer[t] = "active" => StepsInline(t, "active")
  /\ (ntasks < MaxTasks /\ ~(policy = POLICY_SINGLETON /\ last # <<>>)
        /\ ~lock_held(Cur)) =>
       /\ \A ds \in DirSeqs(Cur, ntasks + 1) :
            LET r == newfunc(Cur, ds)
            IN /\ InlineOutcome(r, ntasks + 1, ds)
               /\ r.s.timer[ntasks + 1] = "active" <=> ds[Len(ds)][1] = "cont"

\* C21 witness: a task that waited for a promise went, in the one call made
\* by its timer, through a promise that was finished already and returned.
C21_Witness ==
  \E t \in TaskIds :
    /\ st[t] = "Finished" /\ fires[t] = 1 /\ adv[t] = 3 /\ conts[t] = 0
    /\ awaited[t] # NoIP /\ result[t] = result[awaited[t]] + 1

\* C22: when a caller's observer of a task hears that the task returned or
\* raised, the task is out of _active_coroutines, its timer is not active, it
\* has no prerequisite and its generator is closed and released.  (A task
\* aborted by stop() is recorded in cancelledOn.)
C22_CleanupBeforeSettlement ==
  \A t \in TaskIds :
    (notified[t] >= 1 /\ cancelledOn[t] = <<>>) =>
      ~sawAlive[t] /\ ~NotCleanedUp(Cur, t)

\* C22 witness: the observer of a task heard of a failure that was thrown
\* into the generator from its prerequisite, and of the value of a task that
\* returned in an advance made by its timer.
C22_Witness ==
  \E t, u \in TaskIds :
    /\ notified[t] = 1 /\ cancelledOn[t] = <<>> /\ st[t] = "Failed"
    /\ awaited[t] = 0 /\ st[0] = "Failed"
    /\ notified[u] = 1 /\ cancelledOn[u] = <<>> /\ st[u] = "Finished"
    /\ fires[u] >= 1

\* C23 as stated: self._prerequisite_ip is never assigned a promise that is
\* finished or failed at that moment.
C23_PrereqPendingWhenAssigned == ~terminalPrereq

\* C23: a prerequisite that a task records when a handler has returned was
\* pending when the handler began and is pending still, with _continue
\* connected to both its signals; a recorded prerequisite that is finished or
\* failed was settled later, and the task's timer is active to resume the
\* generator with its outcome.
C23_RecordedPrereqPending ==
  /\ [](\A t \in TaskIds :
          (prereq[t] # NoIP /\ st[prereq[t]] # "Pending") =>
            coroutine[t] /\ timer[t] = "active")
  /\ [][\A t \in TaskIds :
          (prereq'[t] # prereq[t] /\ prereq'[t] # NoIP) =>
            /\ st[prereq'[t]] = "Pending" /\ st'[prereq'[t]] = "Pending"
            /\ InSeq(<<"continue", t>>, fobs'[prereq'[t]])
            /\ InSeq(<<"continue", t>>, eobs'[prereq'[t]])
       ]_vars

\* C23 witness: a task recorded a pending prerequisite in a call in which it
\* had gone through a finished one before.
C23_Witness ==
  \E t \in TaskIds :
    /\ terminalPrereq /\ adv[t] = 2 /\ fires[t] = 0 /\ ~locked[t]
    /\ prereq[t] # NoIP /\ st[prereq[t]] = "Pending" /\ timer[t] = "idle"

\* C24: a KeyboardInterrupt or SystemExit that a generator raises in an
\* advance, or a callable in a drain pass, has failed the promise (the task,
\* the entry's InProgress) when it is re-raised; in the drain the raise
\* releases the lock on its way to the main loop and leaves the entries
\* behind the popped one in the queue.
C24_SettledThenReraised ==
  /\ [](\A t \in TaskIds :
          reraised[t] # "no" =>
            /\ reraised[t] = "settled"
            /\ st[t] = "Failed" /\ exc[t] \in HostFatal
            /\ ~NotCleanedUp(Cur, t))
  /\ [](mpc = "raise" =>
          /\ qraise \in Entries /\ qst[qraise] \in HostFatal
          /\ qlock = "main" /\ ~InSeq(qraise, queue))
  /\ [][/\ (mpc = "drain" /\ mpc' = "raise") => queue' = Tail(queue)
        /\ (mpc = "raise" /\ mpc' # "raise") =>
             /\ mpc' = "loop" /\ qlock' = "free"
             /\ queue' = queue /\ qst' = qst
       ]_vars

\* C24 witness: the signal of a queued callable has reached the main loop
\* with an entry left in the queue, and so has the signal of a generator that
\* was resumed by its timer.
C24_Witness ==
  /\ mpc = "loop" /\ qlock = "free" /\ queue # <<>>
  /\ \E e \in Entries : qst[e] = "KeyboardInterrupt" /\ InSeq(e, ran)
  /\ \E t \in TaskIds :
       reraised[t] = "settled" /\ fires[t] >= 1 /\ exc[t] = "KeyboardInterrupt"

\* C25: an entry enqueued while the main thread was in a drain pass, which
\* that pass did not consume, is consumed by the next pass, and the next pass
\* is triggered: whenever the main thread is back in the loop and the entry's
\* enqueue call has returned with the entry still queued, a wake byte is in
\* the pipe.
C25_NextPassTriggered ==
  \A e \in during :
    (mpc = "loop" /\ pipe /\ InSeq(e, queue) /\ e \in Completed) => bytes > 0

\* C26: the wake pipe is created lazily and can be recreated.  While no pipe
\* exists there is no wake byte and no entry has run, so what was enqueued
\* stays queued.  The write that ends a creation or recreation adds exactly
\* one byte to the new pipe when entries are pending and none otherwise, and
\* as long as no callable raised a host-fatal signal, the main loop back in
\* its loop with a completed entry queued finds a byte in the pipe.  A purge
\* empties the queue before the new pipe is installed, and a purged entry is
\* neither queued again nor ever run.
C26_LazyPipeAndPurge ==
  /\ [](~pipe => (bytes = 0 /\ ran = <<>> /\ purged = {}))
  /\ [][(mpc = "created" /\ mpc' = "loop") =>
         bytes' = (IF queue # <<>> THEN bytes + 1 ELSE bytes)]_vars
  /\ []((/\ mpc = "loop" /\ pipe
         /\ \A e \in Entries : qst[e] # "KeyboardInterrupt") =>
         (\A e \in Completed : InSeq(e, queue) => bytes > 0))
  /\ [][(mpc = "purging" /\ mpc' # "purging") =>
         (queue' = <<>> /\ mpc' = "install" /\ bytes' = bytes)]_vars
  /\ [][(mpc = "install" /\ mpc' # "install") => (pipe' /\ bytes' = 0)]_vars
  /\ [](\A e \in purged : ~InSeq(e, queue) /\ ~InSeq(e, ran))

\* C26 witness: an entry was enqueued before the pipe existed and ran after
\* its creation, a later entry was purged, and after the purge a further
\* entry is queued with its wake byte in the new pipe.
C26_Witness ==
  /\ purged # {} /\ ran # <<>> /\ queue # <<>> /\ bytes > 0 /\ mpc = "loop"
  /\ \A e \in purged : ran[1] < e
  /\ \A e \in purged : e < queue[1]

\* C27: for the pool name there is at most one job server, hence one worker
\* thread, at any time, and every job submitted under the name is queued on
\* the server registered in _threads.
C27_OnePoolPerName ==
  /\ nservers <= 1
  /\ \A p \in ServerIds : sjobs[p] # <<>> => p = _threads

\* C28: killall works in two phases: whenever it is joining a server thread,
\* the stopped flag of every registered server is already set.
C28_StopAllBeforeJoin ==
  kpc = "join" => \A p \in Pools : ppc[p] # "none" => stopped[p]

\* C28 (amended): killall handles the servers one after the other.  A server's
\* stopped flag is set before its own join begins; while one server is being
\* stopped or joined, the servers not yet visited have not been stopped; and
\* every server visited earlier has exited, so the join of one server is
\* over before the next server is stopped.
C28_StopAndJoinInTurn ==
  /\ kpc = "join" => stopped[kcur]
  /\ kpc \in {"stop", "join"} => \A p \in kleft \ {kcur} : ~stopped[p]
  /\ kpc # "idle" =>
       \A p \in Pools : (ppc[p] # "none" /\ p \notin kleft) => ppc[p] = "exited"

\* C28 witness: killall is joining the first of two servers, which has not
\* exited yet, while the other server, not stopped, is executing a job.
C28_Witness ==
  /\ kpc = "join" /\ Cardinality(kleft) = 2 /\ ppc[kcur] # "exited"
  /\ \E p \in kleft \ {kcur} : ppc[p] = "exec" /\ ~stopped[p]

\* C29: after stop() a server's thread eventually exits, and killall, once
\* called, eventually returns, whether it was called from the loop or from
\* inside a drain pass; the thread takes a job from its list only while its
\* stopped flag is unset.
C29_StoppedExitsKillallReturns ==
  /\ \A p \in Pools : stopped[p] ~> (ppc[p] = "exited")
  /\ (kpc # "idle") ~> (kpc = "done")
  /\ [][\A p \in Pools :
          (ppc[p] # "exec" /\ ppc'[p] = "exec") => ~stopped[p]]_vars

\* C30: a function decorated with yield_execution.  When the first yield is
\* a plain value the caller gets that value, no timer exists and nothing
\* fires.  When the generator yields YieldContinue k >= 1 times and then a
\* value v, the caller gets an InProgress object, the generator is re-entered
\* once per timer firing, the timer stays active until the value is yielded,
\* which is at the k-th firing, and a callback connected before that is called
\* exactly once, with v; afterwards the timer is released.
C30_YieldExecution ==
  LET n == Len(yplan)
      k == n - 1
  IN  /\ n = 1 =>
           /\ yret = yplan[1] /\ ytimer = "none"
           /\ yfires = 0 /\ yentered = 1 /\ ycalls = <<>>
      /\ (n >= 2 /\ \A i \in 1..k : yplan[i] = "C") =>
           /\ yret = "InProgress"
           /\ yentered = 1 + yfires
           /\ ydone = "no" => (ytimer = "active" /\ yfires < k /\ ycalls = <<>>)
           /\ ydone # "no" => (ytimer = "released" /\ yfires = k)
           /\ ydone = "with" => ycalls = <<yplan[n]>>
           /\ ydone = "without" => ycalls = <<>>

\* C30 witness: the generator yielded YieldContinue three times and then a
\* value, the timer fired three times, and the callback connected meanwhile
\* has been called once with the value.
C30_Witness ==
  /\ yplan = <<"C", "C", "C", "v1">>
  /\ yfires = 3 /\ ydone = "with" /\ ycalls = <<"v1">> /\ ytimer = "released"

\* C31: no lost wakeup: whenever the wake pipe exists, the queue is not
\* empty, no drain pass and no creation of the pipe is in progress and no
\* enqueue call holds the lock, at least one unread wake byte is in the pipe.
C31_NoLostWakeup ==
  (pipe /\ mpc = "loop" /\ qlock = "free" /\ queue # <<>>) => bytes > 0

\* C32: two threads are never in the body guarded by synchronized for the
\* same key at the same time, and all threads that have read the lock of one
\* key use one and the same lock.
C32_OneLockPerKey ==
  \A v, w \in Workers :
    (v # w /\ skey[v] = skey[w]) =>
      /\ ~(sypc[v] = "body" /\ sypc[w] = "body")
      /\ (slock[v] # 0 /\ slock[w] # 0) => slock[v] = slock[w]

TypeOK ==
  /\ ntasks \in 0..MaxTasks
  /\ active_coroutines \subseteq 1..ntasks
  /\ \A t \in TaskIds : adv[t] \in 0..MaxAdvances
  /\ ~failure
  /\ \A t \in TaskIds : coroutine[t] => st[t] = "Pending"
====
